---------------------------- MODULE Spec2Model ----------------------------
(***************************************************************************)
(* A model of the aoyud assembly front-end: the lex stream, the            *)
(* shunting-yard expression evaluator, the parser's symbol table and       *)
(* conditional-assembly state, and the lexer/parser item channel.          *)
(*                                                                         *)
(* Strings are TLA+ strings; a byte is a string of length 1.  Records      *)
(* model the Go structs and keep their field names.                        *)
(***************************************************************************)
EXTENDS Integers, Sequences, FiniteSets, TLC

(***************************************************************************)
(* Strings (package strings)                                               *)
(***************************************************************************)
Char(s, i) == SubSeq(s, i, i)

LowerLetters == "abcdefghijklmnopqrstuvwxyz"

UpperLetters == "ABCDEFGHIJKLMNOPQRSTUVWXYZ"

\* The upper-case letter of each lower-case letter.
UpperOf ==
    [c \in {Char(LowerLetters, i) : i \in 1..26} |->
        Char(UpperLetters, CHOOSE i \in 1..26 : Char(LowerLetters, i) = c)]

UpperChar(c) == IF c \in DOMAIN UpperOf THEN UpperOf[c] ELSE c

RECURSIVE ToUpper(_)
ToUpper(s) ==
    IF Len(s) = 0 THEN ""
    ELSE UpperChar(Char(s, 1)) \o ToUpper(SubSeq(s, 2, Len(s)))

\* strings.EqualFold, for ASCII text
EqualFold(s, t) == ToUpper(s) = ToUpper(t)

\* strings.IndexByte: 0-based index of the first b in s, or -1
IndexByte(s, b) ==
    IF \E i \in 1..Len(s) : Char(s, i) = b
    THEN (CHOOSE i \in 1..Len(s) :
            Char(s, i) = b /\ \A j \in 1..(i - 1) : Char(s, j) # b) - 1
    ELSE -1

AsciiSpace == {" ", "\t", "\n", "\r"}

RECURSIVE TrimLeftSpace(_)
TrimLeftSpace(s) ==
    IF Len(s) > 0 /\ Char(s, 1) \in AsciiSpace
    THEN TrimLeftSpace(SubSeq(s, 2, Len(s)))
    ELSE s

RECURSIVE TrimRightSpace(_)
TrimRightSpace(s) ==
    IF Len(s) > 0 /\ Char(s, Len(s)) \in AsciiSpace
    THEN TrimRightSpace(SubSeq(s, 1, Len(s) - 1))
    ELSE s

TrimSpace(s) == TrimRightSpace(TrimLeftSpace(s))

Digits == "0123456789abcdefghijklmnopqrstuvwxyz"

\* strconv.FormatInt(n, 10)
RECURSIVE FormatNat(_)
FormatNat(n) ==
    IF n < 10 THEN Char(Digits, n + 1)
    ELSE FormatNat(n \div 10) \o Char(Digits, (n % 10) + 1)

FormatInt(n) == IF n < 0 THEN "-" \o FormatNat(-n) ELSE FormatNat(n)

(***************************************************************************)
(* Lex stream (lex_stream.go)                                              *)
(***************************************************************************)
linebreak == {"\r", "\n"}

whitespace == {" ", "\t"}

quotes == {"'", "\""}

paramDelim == {",", ";"} \cup linebreak

wordDelim == {":"} \cup whitespace \cup paramDelim

insDelim == {"="} \cup wordDelim

shuntDelim ==
    {"+", "-", "*", "/", "|", "(", ")", "[", "]", "<", ">", ":", "&", "\"", "'"}
        \cup whitespace

\* The end-of-input sentinel (byte 0), written as the control character
\* \f: a text of the model that holds \f is an input with a zero byte.
eof == "\f"

newLexStream(input) == [input |-> input, c |-> 0, line |-> 1]

peek(s) == IF s.c >= Len(s.input) THEN eof ELSE Char(s.input, s.c + 1)

\* next consumes one byte: the stream after the call (the byte is peek(s)).
next(s) ==
    [s EXCEPT !.c = s.c + 1,
              !.line = IF peek(s) = "\n" THEN s.line + 1 ELSE s.line]

RECURSIVE ignore(_, _)
ignore(s, delim) == IF peek(s) \in delim THEN ignore(next(s), delim) ELSE s

RECURSIVE SkipUntil(_, _)
SkipUntil(s, delim) ==
    IF peek(s) \notin delim /\ peek(s) # eof
    THEN SkipUntil(next(s), delim)
    ELSE s

\* nextUntil: the word read and the stream after it.
nextUntilFrom(s1, s2) ==
    [ret |-> SubSeq(s1.input, s1.c + 1, s2.c), stream |-> s2]

nextUntilAt(s1, delim) == nextUntilFrom(s1, SkipUntil(s1, delim))

nextUntil(s, delim) == nextUntilAt(ignore(s, whitespace), delim)

\* nextToken: as nextUntil, but consumes one more byte for an empty word.
nextTokenOf(r) ==
    IF Len(r.ret) = 0 THEN [ret |-> peek(r.stream), stream |-> next(r.stream)]
    ELSE r

nextToken(s, delim) == nextTokenOf(nextUntil(s, delim))

(***************************************************************************)
(* Error lists (unnamed/part_001)                                          *)
(***************************************************************************)
ESNone == 0

ESDebug == 1

ESWarning == 2

ESError == 3

ESFatal == 4

\* A nil error list is the empty sequence.
NoErr == <<>>

ErrorListF(sev, msg) == <<[s |-> msg, sev |-> sev]>>

AddL(e, err) == e \o err

AddF(e, sev, msg) == e \o ErrorListF(sev, msg)

\* The highest severity in the list, ESNone for a nil list.
Severity(e) ==
    IF Len(e) = 0 THEN ESNone
    ELSE CHOOSE m \in {e[i].sev : i \in 1..Len(e)} :
            \A i \in 1..Len(e) : e[i].sev <= m

HasError(e, msg) == \E i \in 1..Len(e) : e[i].s = msg

\* The functions of the lex stream that return an error list
\* (lex_stream.go).
segmentDelim == {"'", "\""} \cup whitespace

\* nextAssert consumes one byte: the stream after the call, and the warning
\* when the byte is not b.
nextAssert(s, b, prev) ==
    [stream |-> next(s),
     err |-> IF peek(s) # b
             THEN ErrorListF(ESWarning, "missing a closing " \o b \o ": " \o prev)
             ELSE NoErr]

\* nextSegmentParam for a parameter in quotes: q is the quote, r the text up
\* to the next one, a what nextAssert yields there.
nextSegmentQuoted(q, r, a) ==
    [ret |-> q \o r.ret \o q, stream |-> a.stream, err |-> a.err]

nextSegmentParamOf(r) ==
    IF Len(r.ret) = 0 /\ peek(r.stream) \in quotes
    THEN nextSegmentQuoted(peek(r.stream),
                           nextUntil(next(r.stream), {peek(r.stream)}),
                           nextAssert(nextUntil(next(r.stream),
                                                {peek(r.stream)}).stream,
                                      peek(r.stream),
                                      peek(r.stream)
                                        \o nextUntil(next(r.stream),
                                                     {peek(r.stream)}).ret))
    ELSE [ret |-> r.ret, stream |-> r.stream, err |-> NoErr]

\* nextSegmentParam: the next token delimited by whitespace or quotes, the
\* stream after it, and the error list.
nextSegmentParam(s) == nextSegmentParamOf(nextUntil(s, segmentDelim))

(***************************************************************************)
(* Assembly values (unnamed/part_000)                                      *)
(***************************************************************************)
\* asmInt{n, ptr, base}
asmInt(n, ptr, base) == [k |-> "asmInt", n |-> n, ptr |-> ptr, base |-> base]

\* asmExpression(text)
asmExpression(text) == [k |-> "asmExpression", text |-> text]

\* A nil pointer or interface value.
Nil == [k |-> "nil"]

\* The value of each digit, letters in either case.
DigitOf ==
    [c \in {Char(Digits, i) : i \in 1..36} \cup {Char(UpperLetters, i) : i \in 1..26} |->
        (CHOOSE i \in 1..36 : Char(Digits, i) = c \/ UpperChar(Char(Digits, i)) = c) - 1]

\* The value of digit c, or 36 when c is no digit.
DigitVal(c) == IF c \in DOMAIN DigitOf THEN DigitOf[c] ELSE 36

RECURSIVE ParseDigits(_, _, _)
ParseDigits(s, base, acc) ==
    IF Len(s) = 0 THEN acc
    ELSE ParseDigits(SubSeq(s, 2, Len(s)), base, acc * base + DigitVal(Char(s, 1)))

\* strconv.ParseInt(s, base, 0) for unsigned digit strings within range.
ParseInt(s, base) ==
    IF Len(s) = 0 \/ \E i \in 1..Len(s) : DigitVal(Char(s, i)) >= base
    THEN [n |-> 0, ok |-> FALSE]
    ELSE [n |-> ParseDigits(s, base, 0), ok |-> TRUE]

DecimalDigits == {Char(Digits, i) : i \in 1..10}

isAsmInt(input) ==
    IF Len(input) = 0 THEN FALSE
    ELSE IF Char(input, 1) \in {"+", "-"} /\ Len(input) = 1 THEN FALSE
    ELSE /\ Char(input, 1) \in DecimalDigits
         /\ \A i \in 1..Len(input) : Char(input, i) \notin whitespace

\* The base that the last byte of an integer constant names, 0 for none.
asmIntBase(last) ==
    CASE last = "b" -> 2
      [] last = "o" -> 8
      [] last = "t" -> 10
      [] last = "h" -> 16
      [] OTHER -> 0

asmIntParsed(input, base, r) ==
    IF ~r.ok
    THEN [val |-> asmInt(0, 0, 0),
          err |-> ErrorListF(ESError, "invalid syntax: " \o input)]
    ELSE [val |-> asmInt(r.n, 0, base), err |-> NoErr]

asmIntIn(input, base) ==
    IF base # 0
    THEN asmIntParsed(input, base,
                      ParseInt(SubSeq(input, 1, Len(input) - 1), base))
    ELSE asmIntParsed(input, 10, ParseInt(input, 10))

newAsmInt(input) == asmIntIn(input, asmIntBase(Char(input, Len(input))))

(***************************************************************************)
(* Integer arithmetic of int64 operands.  The values evaluated in this     *)
(* model stay far inside the int64 range, where Go's arithmetic does not   *)
(* wrap.                                                                   *)
(***************************************************************************)
Abs(x) == IF x < 0 THEN -x ELSE x

\* Go's / on integers truncates toward zero.
TruncDiv(a, b) ==
    IF (a >= 0) = (b > 0) THEN Abs(a) \div Abs(b) ELSE -(Abs(a) \div Abs(b))

\* Go's %: the remainder has the sign of the dividend.
TruncRem(a, b) == a - b * TruncDiv(a, b)

RECURSIVE Pow2(_)
Pow2(k) == IF k = 0 THEN 1 ELSE 2 * Pow2(k - 1)

\* a >> uint(b): a negative b converts to a count of at least 2^63.
ShiftRight(a, b) ==
    IF b < 0 \/ b >= 64 THEN (IF a < 0 THEN -1 ELSE 0) ELSE a \div Pow2(b)

\* a << uint(b)
ShiftLeft(a, b) == IF b < 0 \/ b >= 64 THEN 0 ELSE a * Pow2(b)

\* Two's complement bit operations on integers of any size.
RECURSIVE BitAnd(_, _)
BitAnd(a, b) ==
    IF a = 0 \/ b = 0 THEN 0
    ELSE IF a = -1 THEN b
    ELSE IF b = -1 THEN a
    ELSE ((a % 2) * (b % 2)) + 2 * BitAnd(a \div 2, b \div 2)

RECURSIVE BitOr(_, _)
BitOr(a, b) ==
    IF a = 0 THEN b
    ELSE IF b = 0 THEN a
    ELSE IF a = -1 \/ b = -1 THEN -1
    ELSE (IF a % 2 = 1 \/ b % 2 = 1 THEN 1 ELSE 0) + 2 * BitOr(a \div 2, b \div 2)

RECURSIVE BitXor(_, _)
BitXor(a, b) ==
    IF a = 0 THEN b
    ELSE IF b = 0 THEN a
    ELSE IF a = -1 THEN -b - 1
    ELSE IF b = -1 THEN -a - 1
    ELSE (((a % 2) + (b % 2)) % 2) + 2 * BitXor(a \div 2, b \div 2)

b2i(b) == IF b THEN 1 ELSE 0

(***************************************************************************)
(* 64-bit integers bit by bit: an int64 is the sequence of its 8 bytes,    *)
(* the most significant first, in two's complement.  Used where the        *)
(* values reach the limits of int64.                                       *)
(***************************************************************************)
\* The int64 of the bytes of a natural number below 2^31.
I64(n) ==
    <<0, 0, 0, 0, n \div 16777216, (n \div 65536) % 256, (n \div 256) % 256, n % 256>>

IsNeg64(a) == a[1] >= 128

\* a + 1 from byte i down, which wraps at 2^64.
RECURSIVE Inc64From(_, _)
Inc64From(a, i) ==
    IF i = 0 THEN a
    ELSE IF a[i] = 255 THEN Inc64From([a EXCEPT ![i] = 0], i - 1)
    ELSE [a EXCEPT ![i] = a[i] + 1]

\* -a of int64, which is a itself for the least int64.
Neg64(a) == Inc64From([i \in 1..8 |-> 255 - a[i]], 8)

\* a < b for bytes read as unsigned numbers.
RECURSIVE LessBytes(_, _, _)
LessBytes(a, b, i) ==
    IF i > Len(a) THEN FALSE
    ELSE IF a[i] # b[i] THEN a[i] < b[i]
    ELSE LessBytes(a, b, i + 1)

\* a < b of int64
Less64(a, b) ==
    IF IsNeg64(a) # IsNeg64(b) THEN IsNeg64(a) ELSE LessBytes(a, b, 1)

\* asmInt.width of the int64 n: n is what the first lines make of v.n.
asmIntWidthOf(n) ==
    IF Less64(n, <<0, 0, 0, 0, 0, 0, 0, 255>>) THEN 1
    ELSE IF Less64(n, <<0, 0, 0, 0, 0, 0, 255, 255>>) THEN 2
    ELSE IF Less64(n, <<0, 0, 0, 0, 255, 255, 255, 255>>) THEN 4
    ELSE 8

asmIntWidth(n) == asmIntWidthOf(IF Less64(n, I64(0)) THEN Neg64(n) ELSE n)

\* The carry of a + b into byte i, and a + b of int64, which wraps at 2^64.
RECURSIVE AddCarry(_, _, _)
AddCarry(a, b, i) ==
    IF i = 8 THEN 0 ELSE (a[i + 1] + b[i + 1] + AddCarry(a, b, i + 1)) \div 256

Add64(a, b) == [i \in 1..8 |-> (a[i] + b[i] + AddCarry(a, b, i)) % 256]

\* a * b of int64, which wraps at 2^64, as the long multiplication of the
\* bytes: column k (0 is the lowest byte) sums the products of the bytes
\* whose places add up to k, and takes the carry of the columns below.
RECURSIVE MulColumn(_, _, _, _)
MulColumn(a, b, k, i) ==
    IF i > k THEN 0 ELSE a[8 - i] * b[8 - (k - i)] + MulColumn(a, b, k, i + 1)

RECURSIVE MulCarry(_, _, _)
MulCarry(a, b, k) ==
    IF k = 0 THEN 0
    ELSE (MulColumn(a, b, k - 1, 0) + MulCarry(a, b, k - 1)) \div 256

Mul64(a, b) ==
    [i \in 1..8 |-> (MulColumn(a, b, 8 - i, 0) + MulCarry(a, b, 8 - i)) % 256]

\* a & b and a ^ b of int64
And64(a, b) == [i \in 1..8 |-> BitAnd(a[i], b[i])]

Xor64(a, b) == [i \in 1..8 |-> BitXor(a[i], b[i])]

(***************************************************************************)
(* String literals (asm_string.go).  An asmString is the sequence of its   *)
(* bytes, each a number in 0..255.                                         *)
(***************************************************************************)
maxbytes == 8

\* a | b of int64
Or64(a, b) == [i \in 1..8 |-> BitOr(a[i], b[i])]

\* int64(b) << uint(i*8) for a byte b and i in 0..7
ShiftByte(b, i) == [j \in 1..8 |-> IF j = 8 - i THEN b ELSE 0]

\* rest >>= 8 of int64, which keeps the sign
ShiftRight8(a) == <<IF IsNeg64(a) THEN 255 ELSE 0>> \o SubSeq(a, 1, 7)

\* The byte that round i of toInt's loop reads, reading the bytes from the
\* first on instead of from the last on.
toIntByteForward(v, i) == v[i + 1]

\* The byte that round i of toInt's loop reads: v[len(v)-1-i].
toIntByte(v, i) == v[Len(v) - i]

\* toInt's loop from round i on, n being ret.n.
RECURSIVE toIntFrom(_, _, _)
toIntFrom(v, i, n) ==
    IF i < Len(v) THEN toIntFrom(v, i + 1, Or64(n, ShiftByte(toIntByte(v, i), i)))
    ELSE n

\* toInt: the asmInt of base 256 with the int64 n, and the error list.  The
\* call of ErrorListF names no severity; ESError stands for it.
toInt(v) ==
    IF Len(v) > maxbytes
    THEN [val |-> [k |-> "asmInt", n |-> I64(0), ptr |-> 0, base |-> 256],
          err |-> ErrorListF(ESError, "string constant larger than 8 bytes")]
    ELSE [val |-> [k |-> "asmInt", n |-> toIntFrom(v, 0, I64(0)), ptr |-> 0,
                   base |-> 256],
          err |-> NoErr]

\* formatASCII's loop from round i on.
RECURSIVE formatASCIIFrom(_, _, _)
formatASCIIFrom(rest, i, ret) ==
    IF i < maxbytes
    THEN formatASCIIFrom(ShiftRight8(rest), i + 1,
                         [ret EXCEPT ![maxbytes - i] = rest[8]])
    ELSE ret

\* strings.TrimLeft(s, "\x00")
RECURSIVE TrimLeftZero(_)
TrimLeftZero(s) ==
    IF Len(s) > 0 /\ s[1] = 0 THEN TrimLeftZero(Tail(s)) ELSE s

\* formatASCII of the asmInt with the int64 n
formatASCII(n) == TrimLeftZero(formatASCIIFrom(n, 0, [i \in 1..maxbytes |-> 0]))

(***************************************************************************)
(* Symbol table (unnamed/part_000).  p is the parser struct; p.syms maps   *)
(* a key to symbol{constant, val}, and a nil map is the map without keys.  *)
(***************************************************************************)
symbol(val, constant) == [constant |-> constant, val |-> val]

NilSyms == [key \in {} |-> symbol(Nil, FALSE)]

\* toSymCase without the upper-casing, a fault that the property of C8
\* detects.
toSymCaseKeep(p, s) == s

toSymCase(p, s) == IF ~p.symCase THEN ToUpper(s) ELSE s

\* The lookup of getSym under the key realName.
getSymKey(p, realName) ==
    IF realName \in DOMAIN p.syms
    THEN [val |-> p.syms[realName].val, err |-> NoErr]
    ELSE [val |-> Nil, err |-> ErrorListF(ESError, "unknown symbol " \o realName)]

getSym(p, name) == getSymKey(p, toSymCase(p, name))

\* setSym without the test of the constant flag, a fault that the property
\* of C7 detects.
setSymKeyAlways(p, realName, val, constant) ==
    [p |-> [p EXCEPT !.syms = (realName :> symbol(val, constant)) @@ p.syms],
     err |-> NoErr]

\* The store of setSym under the key realName: the parser after the call
\* and the error list.
setSymKey(p, realName, val, constant) ==
    IF realName \in DOMAIN p.syms /\ p.syms[realName].constant
    THEN [p |-> p,
          err |-> ErrorListF(ESError,
                    "constant symbol " \o realName \o " already defined elsewhere")]
    ELSE [p |-> [p EXCEPT !.syms = (realName :> symbol(val, constant)) @@ p.syms],
          err |-> NoErr]

setSym(p, name, val, constant) ==
    setSymKey(p, toSymCase(p, name), val, constant)

(***************************************************************************)
(* Shunting-yard expression evaluator (shunt.go)                           *)
(***************************************************************************)
shuntOp(id, precedence, args) ==
    [k |-> "shuntOp", id |-> id, precedence |-> precedence, args |-> args]

asmTypes ==
    [name \in {"BYTE", "WORD", "DWORD", "PWORD", "FWORD", "QWORD", "TBYTE"} |->
        asmInt(CASE name = "BYTE" -> 1
                 [] name = "WORD" -> 2
                 [] name = "DWORD" -> 4
                 [] name = "PWORD" -> 6
                 [] name = "FWORD" -> 6
                 [] name = "QWORD" -> 8
                 [] name = "TBYTE" -> 10, 0, 0)]

unaryOperators ==
    [name \in {"(", ")", "+", "-", "NOT"} |->
        CASE name = "(" -> shuntOp("(", 14, 0)
          [] name = ")" -> shuntOp(")", 14, 0)
          [] name = "+" -> shuntOp("+", 8, 1)
          [] name = "-" -> shuntOp("-", 8, 1)
          [] name = "NOT" -> shuntOp("NOT", 4, 1)]

binaryOperators ==
    [name \in {"(", ")", "PTR", "*", "/", "MOD", "SHR", "SHL", "+", "-", "EQ",
               "NE", "LT", "LE", "GT", "GE", "AND", "OR", "|", "XOR"} |->
        CASE name = "(" -> shuntOp("(", 14, 0)
          [] name = ")" -> shuntOp(")", 14, 0)
          [] name = "PTR" -> shuntOp("PTR", 11, 2)
          [] name \in {"*", "/", "MOD", "SHR", "SHL"} -> shuntOp(name, 7, 2)
          [] name \in {"+", "-"} -> shuntOp(name, 6, 2)
          [] name \in {"EQ", "NE", "LT", "LE", "GT", "GE"} -> shuntOp(name, 5, 2)
          [] name = "AND" -> shuntOp("AND", 3, 2)
          [] name \in {"OR", "|"} -> shuntOp("OR", 2, 2)
          [] name = "XOR" -> shuntOp("XOR", 2, 2)]

\* The operator set a shuntState's opSet points to.
OpSet(which) == IF which = "unary" THEN unaryOperators ELSE binaryOperators

\* The function of a unary operator: a is the zero asmInt, b the operand.
UnaryFunction(id, a, b) ==
    CASE id = "+" -> [a EXCEPT !.base = b.base]
      [] id = "-" -> [a EXCEPT !.n = -b.n, !.base = b.base]
      [] id = "NOT" -> [a EXCEPT !.n = -b.n - 1, !.base = b.base]

\* The function of a binary operator: the new value of a.
BinaryFunction(id, a, b) ==
    CASE id = "PTR" -> [a EXCEPT !.ptr = a.n, !.n = b.n, !.base = b.base]
      [] id = "*" -> [a EXCEPT !.n = a.n * b.n]
      [] id = "/" -> [a EXCEPT !.n = TruncDiv(a.n, b.n)]
      [] id = "MOD" -> [a EXCEPT !.n = TruncRem(a.n, b.n)]
      [] id = "SHR" -> [a EXCEPT !.n = ShiftRight(a.n, b.n)]
      [] id = "SHL" -> [a EXCEPT !.n = ShiftLeft(a.n, b.n)]
      [] id = "+" -> [a EXCEPT !.n = a.n + b.n]
      [] id = "-" -> [a EXCEPT !.n = a.n - b.n]
      [] id = "EQ" -> [a EXCEPT !.n = b2i(a.n = b.n)]
      [] id = "NE" -> [a EXCEPT !.n = b2i(a.n # b.n)]
      [] id = "LT" -> [a EXCEPT !.n = b2i(a.n < b.n)]
      [] id = "LE" -> [a EXCEPT !.n = b2i(a.n <= b.n)]
      [] id = "GT" -> [a EXCEPT !.n = b2i(a.n > b.n)]
      [] id = "GE" -> [a EXCEPT !.n = b2i(a.n >= b.n)]
      [] id = "AND" -> [a EXCEPT !.n = BitAnd(a.n, b.n)]
      [] id = "OR" -> [a EXCEPT !.n = BitOr(a.n, b.n)]
      [] id = "XOR" -> [a EXCEPT !.n = BitXor(a.n, b.n)]

\* The operand a as it is when the operator's function is not applied
BinaryFunction64Kept(id, a, b) == a

\* The functions of +, *, EQ, NE, AND, OR and XOR for operands whose n is
\* an int64 bit by bit.
BinaryFunction64(id, a, b) ==
    CASE id = "*" -> [a EXCEPT !.n = Mul64(a.n, b.n)]
      [] id = "+" -> [a EXCEPT !.n = Add64(a.n, b.n)]
      [] id = "EQ" -> [a EXCEPT !.n = I64(b2i(a.n = b.n))]
      [] id = "NE" -> [a EXCEPT !.n = I64(b2i(a.n # b.n))]
      [] id = "AND" -> [a EXCEPT !.n = And64(a.n, b.n)]
      [] id = "OR" -> [a EXCEPT !.n = Or64(a.n, b.n)]
      [] id = "XOR" -> [a EXCEPT !.n = Xor64(a.n, b.n)]

\* shuntOp.Calc for an operator of two arguments with the int64 operands a
\* and b on the stack, b on top.
Calc64(id, a, b) == BinaryFunction64(id, a, b)

\* A run-time panic of the function: an integer division by zero, or the
\* nil function of a parenthesis.
FunctionPanics(op, b) ==
    \/ op.args = 0
    \/ op.args = 2 /\ op.id \in {"/", "MOD"} /\ b.n = 0

\* The call op.function(&args[0], &args[1]) that ends Calc.
CalcApply(op, a, b, rest) ==
    IF FunctionPanics(op, b)
    THEN [val |-> asmInt(0, 0, 0), err |-> NoErr, retStack |-> rest, panic |-> TRUE]
    ELSE [val |-> IF op.args = 1 THEN UnaryFunction(op.id, a, b)
                  ELSE BinaryFunction(op.id, a, b),
          err |-> NoErr, retStack |-> rest, panic |-> FALSE]

\* shuntOp.Calc: pops op.args operands off retStack (the top is the last
\* element) and applies the function; a unary operator leaves args[0] zero.
CalcOp(op, retStack) ==
    IF Len(retStack) < op.args
    THEN [val |-> asmInt(0, 0, 0),
          err |-> ErrorListF(ESError, "arithmetic stack underflow"),
          retStack |-> <<>>, panic |-> FALSE]
    ELSE CalcApply(op,
                   IF op.args = 2 THEN retStack[Len(retStack) - 1]
                   ELSE asmInt(0, 0, 0),
                   IF op.args >= 1 THEN retStack[Len(retStack)]
                   ELSE asmInt(0, 0, 0),
                   SubSeq(retStack, 1, Len(retStack) - op.args))

\* Calc of any element of an RPN stack.
Calc(val, retStack) ==
    IF val.k = "asmInt"
    THEN [val |-> val, err |-> NoErr, retStack |-> retStack, panic |-> FALSE]
    ELSE CalcOp(val, retStack)

\* The token of nextShuntToken as a value: an integer constant, a type, an
\* operator of opSet or a symbol of the parser's symbol table.
shuntTokenValue(p, opSet, token, tokenUpper) ==
    IF isAsmInt(token) THEN newAsmInt(token)
    ELSE IF tokenUpper \in DOMAIN asmTypes
    THEN [val |-> asmTypes[tokenUpper], err |-> NoErr]
    ELSE IF tokenUpper \in DOMAIN OpSet(opSet)
    THEN [val |-> OpSet(opSet)[tokenUpper], err |-> NoErr]
    ELSE getSym(p, token)

shuntTokenOf(t, r) == [ret |-> r.val, err |-> r.err, stream |-> t.stream]

shuntTokenAt(p, opSet, t) ==
    shuntTokenOf(t, shuntTokenValue(p, opSet, t.ret, ToUpper(t.ret)))

\* nextShuntToken: the next operand or operator of the stream.  No
\* expression evaluated in this model holds a quote, so string literal
\* operands do not occur.
nextShuntToken(p, stream, opSet) ==
    shuntTokenAt(p, opSet, nextToken(stream, shuntDelim))

\* The loop of pushOp's case opParenR: pops operators to retStack until a
\* left parenthesis was popped (found) or opStack is empty.
RECURSIVE PopToParenL(_, _)
PopToParenL(retStack, opStack) ==
    IF Len(opStack) = 0
    THEN [retStack |-> retStack, opStack |-> opStack, found |-> FALSE]
    ELSE IF opStack[Len(opStack)].id = "("
    THEN [retStack |-> retStack, opStack |-> SubSeq(opStack, 1, Len(opStack) - 1),
          found |-> TRUE]
    ELSE PopToParenL(Append(retStack, opStack[Len(opStack)]),
                     SubSeq(opStack, 1, Len(opStack) - 1))

\* Whether pushOp's default case stops popping at the operator op on top of
\* opStack when newOp comes in.
PushOpBreaks(newOp, op) == op.id = "(" \/ newOp.precedence <= op.precedence

\* The loop of pushOp's default case.
RECURSIVE PopWhileLower(_, _, _)
PopWhileLower(retStack, opStack, newOp) ==
    IF Len(opStack) = 0 THEN [retStack |-> retStack, opStack |-> opStack]
    ELSE IF PushOpBreaks(newOp, opStack[Len(opStack)])
    THEN [retStack |-> retStack, opStack |-> opStack]
    ELSE PopWhileLower(Append(retStack, opStack[Len(opStack)]),
                       SubSeq(opStack, 1, Len(opStack) - 1), newOp)

pushOpParenR(r) ==
    [retStack |-> r.retStack, opStack |-> r.opStack, opSet |-> "binary",
     err |-> IF r.found THEN NoErr
             ELSE AddF(ErrorListF(ESError, "arithmetic stack underflow"),
                       ESError, "mismatched parentheses")]

pushOpDefault(r, newOp) ==
    [retStack |-> r.retStack, opStack |-> Append(r.opStack, newOp),
     opSet |-> "unary", err |-> NoErr]

\* pushOp: the stacks after the call, the next set of allowed operators and
\* the error list.
pushOp(retStack, opStack, newOp) ==
    CASE newOp.id = ")" -> pushOpParenR(PopToParenL(retStack, opStack))
      [] newOp.id = "(" ->
            [retStack |-> retStack, opStack |-> Append(opStack, newOp),
             opSet |-> "unary", err |-> NoErr]
      [] OTHER -> pushOpDefault(PopWhileLower(retStack, opStack, newOp), newOp)

\* shuntState{retStack, opStack, opSet}
newShuntState == [retStack |-> <<>>, opStack |-> <<>>, opSet |-> "unary"]

RECURSIVE shuntLoop(_, _, _)
RECURSIVE shuntLoopFrom(_, _, _, _)

\* The case *shuntOp of shuntLoop's switch: the error list that pushOp
\* returns is added to a copy of err that is dropped (line 236).
shuntLoopPushed(r, err) ==
    [state |-> [retStack |-> r.retStack, opStack |-> r.opStack, opSet |-> r.opSet],
     err |-> err]

\* The case asmExpression of shuntLoop's switch.
shuntLoopNested(r, err) == [state |-> r.state, err |-> AddL(err, r.err)]

\* The switch of shuntLoop over the type of the token: the state and the
\* error list after it.
shuntLoopSwitch(p, state, err, token) ==
    CASE token.k = "asmInt" ->
            [state |-> [state EXCEPT !.retStack = Append(state.retStack, token),
                                     !.opSet = "binary"],
             err |-> err]
      [] token.k = "shuntOp" ->
            shuntLoopPushed(pushOp(state.retStack, state.opStack, token), err)
      [] token.k = "asmExpression" ->
            shuntLoopNested(shuntLoop(p, state, token.text), err)
      [] OTHER ->
            [state |-> state,
             err |-> AddF(err, ESError,
                       "can't use " \o token.k \o " in arithmetic expression")]

shuntLoopNext(after, stream) ==
    [state |-> after.state, stream |-> stream, err |-> after.err,
     return |-> FALSE]

\* One round of shuntLoop's loop once the token t is read.
shuntLoopToken(p, state, err, t) ==
    IF Severity(t.err) >= ESError
    THEN [state |-> state, stream |-> t.stream, err |-> AddL(err, t.err),
          return |-> TRUE]
    ELSE shuntLoopNext(shuntLoopSwitch(p, state, AddL(err, t.err), t.ret),
                       ignore(t.stream, whitespace))

\* One round of shuntLoop's loop: the state, the stream and the error list
\* after it, and whether shuntLoop returns in it.
shuntLoopBody(p, state, stream, err) ==
    shuntLoopToken(p, state, err, nextShuntToken(p, stream, state.opSet))

shuntLoopCont(p, r) ==
    IF r.return THEN [state |-> r.state, err |-> r.err]
    ELSE shuntLoopFrom(p, r.state, r.stream, r.err)

shuntLoopFrom(p, state, stream, err) ==
    IF peek(stream) # eof /\ Severity(err) < ESError
    THEN shuntLoopCont(p, shuntLoopBody(p, state, stream, err))
    ELSE [state |-> state, err |-> err]

shuntLoop(p, state, expr) == shuntLoopFrom(p, state, newLexStream(expr), NoErr)

\* The loop that ends shunt: the operators left on opStack go to retStack,
\* a left parenthesis is an error.
RECURSIVE shuntDrain(_, _, _)
shuntDrain(retStack, opStack, err) ==
    IF Len(opStack) = 0 THEN [retStack |-> retStack, err |-> err]
    ELSE IF opStack[Len(opStack)].id = "("
    THEN shuntDrain(retStack, SubSeq(opStack, 1, Len(opStack) - 1),
                    AddF(err, ESError, "missing a right parenthesis"))
    ELSE shuntDrain(Append(retStack, opStack[Len(opStack)]),
                    SubSeq(opStack, 1, Len(opStack) - 1), err)

shuntStackOf(d) == [stack |-> [k |-> "shuntStack", vals |-> d.retStack], err |-> d.err]

shuntEnd(l) ==
    IF Severity(l.err) >= ESError THEN [stack |-> Nil, err |-> l.err]
    ELSE shuntStackOf(shuntDrain(l.state.retStack, l.state.opStack, l.err))

\* shunt: the RPN stack of expr (Nil with an error list of severity Error).
shunt(p, expr) == shuntEnd(shuntLoop(p, newShuntState, expr))

solvePush(c, err) ==
    [retStack |-> IF Severity(c.err) < ESError /\ ~c.panic
                  THEN Append(c.retStack, c.val) ELSE c.retStack,
     err |-> AddL(err, c.err), panic |-> c.panic]

\* One round of solve's loop over the RPN stack.
solveBody(val, retStack, err) == solvePush(Calc(val, retStack), err)

RECURSIVE solveFrom(_, _, _, _)
solveNext(vals, i, r) ==
    IF r.panic THEN r ELSE solveFrom(vals, i + 1, r.retStack, r.err)

solveFrom(vals, i, retStack, err) ==
    IF i > Len(vals) THEN [retStack |-> retStack, err |-> err, panic |-> FALSE]
    ELSE solveNext(vals, i, solveBody(vals[i], retStack, err))

\* The end of solve.  The stack's wordsize is maxbytes (8) and no asmInt is
\* wider than 8 bytes, so the overflow check never fires.
solveEnd(r) ==
    IF r.panic THEN [ret |-> Nil, err |-> r.err, panic |-> TRUE]
    ELSE IF Len(r.retStack) # 1
    THEN [ret |-> Nil, err |-> AddF(r.err, ESError, "invalid RPN expression"),
          panic |-> FALSE]
    ELSE [ret |-> r.retStack[1], err |-> r.err, panic |-> FALSE]

\* solve: the value of an RPN stack; panic when the evaluation crashes.
solve(vals) == solveEnd(solveFrom(vals, 1, <<>>, NoErr))

evalIntSolved(s, r) == [ret |-> r.ret, err |-> AddL(s.err, r.err), panic |-> r.panic]

evalIntOf(s) ==
    IF Severity(s.err) < ESError THEN evalIntSolved(s, solve(s.stack.vals))
    ELSE [ret |-> Nil, err |-> s.err, panic |-> FALSE]

evalInt(p, expr) == evalIntOf(shunt(p, expr))

evalBoolOf(r) ==
    IF Severity(r.err) < ESError /\ ~r.panic
    THEN [ret |-> r.ret.n # 0, err |-> r.err, panic |-> FALSE]
    ELSE [ret |-> FALSE, err |-> r.err, panic |-> r.panic]

evalBool(p, expr) == evalBoolOf(evalInt(p, expr))

(***************************************************************************)
(* Data storage (data.go).  A blob is a pattern of bytes, each a number in *)
(* 0..255, written rep times, as a DUP declaration emits it.  A BlobList   *)
(* holds one pointer to the blob for every byte of it; it is modelled as   *)
(* the sequence of the blobs that have bytes, and its length is the sum    *)
(* of their lengths.                                                       *)
(***************************************************************************)
Emittable(data, rep) == [k |-> "blob", data |-> data, rep |-> rep]

\* blob.Len()
EmitLen(blob) == Len(blob.data) * blob.rep

\* Whether blob.Emit() holds a byte that is not zero.
EmitsNonZero(blob) ==
    blob.rep > 0 /\ \E i \in 1..Len(blob.data) : blob.data[i] # 0

\* BlobList.Append
BlobListAppend(l, blob) == IF EmitLen(blob) = 0 THEN l ELSE Append(l, blob)

\* len(l) of a BlobList l
RECURSIVE BlobListLen(_)
BlobListLen(l) ==
    IF Len(l) = 0 THEN 0 ELSE EmitLen(l[1]) + BlobListLen(Tail(l))

asmSegment(name, wordsize) ==
    [k |-> "asmSegment", name |-> name, chunks |-> <<>>, prev |-> Nil,
     overflowed |-> FALSE, wordsize |-> wordsize]

\* asmSegment.width, over the chunks from the i-th on
RECURSIVE segWidthFrom(_, _)
segWidthFrom(chunks, i) ==
    IF i > Len(chunks) THEN 0
    ELSE BlobListLen(chunks[i]) + segWidthFrom(chunks, i + 1)

segWidth(s) == segWidthFrom(s.chunks, 1)

\* maxSize of asmSegment.AddData, one too high
segMaxSizeOff(wordsize) == Pow2(wordsize * 8)

\* maxSize of asmSegment.AddData.  The segments of the model are 16-bit
\* ones; the sizes of 32-bit and 64-bit ones are past the integers of the
\* model checker.
segMaxSize(wordsize) == Pow2(wordsize * 8) - 1

\* The blob goes to the last chunk, which is made if there is none.
segAppend(s, blob) ==
    IF Len(s.chunks) = 0
    THEN [s EXCEPT !.chunks = <<BlobListAppend(<<>>, blob)>>]
    ELSE [s EXCEPT !.chunks[Len(s.chunks)] = BlobListAppend(@, blob)]

\* asmSegment.AddData with a diagnostic for every blob past maxSize
segAddDataEveryTime(s, blob) ==
    IF EmitLen(blob) + segWidth(s) > segMaxSize(s.wordsize)
    THEN [s |-> segAppend([s EXCEPT !.overflowed = TRUE], blob),
          err |-> AddF(NoErr, ESError,
                    "declaration overflows " \o FormatNat(s.wordsize * 8)
                        \o "-bit segment: " \o s.name)]
    ELSE [s |-> segAppend(s, blob), err |-> NoErr]

\* asmSegment.AddData: the segment after the call and the error list
segAddData(s, blob) ==
    IF EmitLen(blob) + segWidth(s) > segMaxSize(s.wordsize) /\ ~s.overflowed
    THEN [s |-> segAppend([s EXCEPT !.overflowed = TRUE], blob),
          err |-> AddF(NoErr, ESError,
                    "declaration overflows " \o FormatNat(s.wordsize * 8)
                        \o "-bit segment: " \o s.name)]
    ELSE [s |-> segAppend(s, blob), err |-> NoErr]

\* asmSegment.Offset
segOffset(s) ==
    IF Len(s.chunks) # 0
    THEN [chunk |-> Len(s.chunks) - 1,
          off |-> BlobListLen(s.chunks[Len(s.chunks)])]
    ELSE [chunk |-> 0, off |-> 0]

\* blob.Emit(): the bytes of the blob
RECURSIVE EmitBytes(_)
EmitBytes(blob) ==
    IF blob.rep = 0 THEN <<>>
    ELSE blob.data \o EmitBytes([blob EXCEPT !.rep = @ - 1])

\* BlobList.Emit
RECURSIVE BlobListEmit(_)
BlobListEmit(l) ==
    IF Len(l) = 0 THEN <<>> ELSE EmitBytes(l[1]) \o BlobListEmit(Tail(l))

(***************************************************************************)
(* Structures and unions (unnamed/part_001).  prev is the structure        *)
(* around, or Nil; the members map plays no part in the data.              *)
(***************************************************************************)
sUnion == FALSE
sStruc == TRUE

asmStruc(name, flag, prev) ==
    [k |-> "asmStruc", name |-> name, flag |-> flag, data |-> <<>>,
     members |-> NilSyms, prev |-> prev]

\* asmStruc.width
strucWidth(v) == BlobListLen(v.data)

\* The blob itself in the place of the padding
strucPadWhole(v, blob) == blob

\* The zero bytes by which blob is longer than the union v
strucPad(v, blob) == Emittable(<<0>>, EmitLen(blob) - strucWidth(v))

\* asmStruc.AddData: the structure after the call and the error list.
\* strucAddTo is the part of it from the test of v.prev on.
RECURSIVE strucAddData(_, _)
strucAddTo(v, blob, err) ==
    IF v.prev # Nil
    THEN [v |-> [v EXCEPT !.prev = strucAddData(v.prev, blob).v,
                          !.data = BlobListAppend(@, blob)],
          err |-> AddL(err, strucAddData(v.prev, blob).err)]
    ELSE [v |-> [v EXCEPT !.data = BlobListAppend(@, blob)], err |-> err]

strucWarning(blob) ==
    IF EmitsNonZero(blob)
    THEN AddF(NoErr, ESWarning,
              "ignoring default value for union member beyond the first")
    ELSE NoErr

strucAddData(v, blob) ==
    IF v.flag = sUnion /\ strucWidth(v) > 0
    THEN IF strucWidth(v) >= EmitLen(blob)
         THEN [v |-> v, err |-> strucWarning(blob)]
         ELSE strucAddTo(v, strucPad(v, blob), strucWarning(blob))
    ELSE strucAddTo(v, blob, NoErr)

\* asmStruc.Offset
strucOffset(v) ==
    [chunk |-> 0, off |-> IF v.flag = sStruc THEN BlobListLen(v.data) ELSE 0]

(***************************************************************************)
(* Parser (unnamed/part_000).  A directive's parse function takes the      *)
(* parser p, the item number and the item, and yields the parser after the *)
(* call, the error list it returns, and whether the call crashed the       *)
(* program with a run-time panic.  A nil error list is the empty one.      *)
(***************************************************************************)
itemLabel == "itemLabel"
itemInstruction == "itemInstruction"

item(sym, val, params) ==
    [typ |-> itemInstruction, sym |-> sym, val |-> val, params |-> params]

\* strings.Join(params, ", ")
RECURSIVE JoinParams(_)
JoinParams(params) ==
    IF Len(params) = 0 THEN ""
    ELSE IF Len(params) = 1 THEN params[1]
    ELSE params[1] \o ", " \o JoinParams(Tail(params))

\* item.String
itemString(it) ==
    (IF it.typ = itemLabel THEN it.sym \o ":"
     ELSE IF it.typ = itemInstruction THEN it.sym \o "\t" \o it.val
     ELSE "")
      \o (IF Len(it.params) > 0 THEN "\t" \o JoinParams(it.params) ELSE "")

Result(p, err) == [p |-> p, err |-> err, panic |-> FALSE]

Panicked(p) == [p |-> p, err |-> NoErr, panic |-> TRUE]

\* The result of a function that returns what setSym returns.
ResultOf(s) == Result(s.p, s.err)

\* Thing(): the noun that describes a type of value.
Thing(v) ==
    CASE v.k = "asmInt" -> "integer constant"
      [] v.k = "asmExpression" -> "arithmetic expression"
      [] v.k = "asmMacro" -> "multiline macro"
      [] OTHER -> v.k

splitColonAt(s, c) ==
    IF c = -1 THEN [key |-> TrimSpace(s), val |-> ""]
    ELSE [key |-> TrimSpace(SubSeq(s, 1, c)),
          val |-> TrimSpace(SubSeq(s, c + 2, Len(s)))]

\* splitColon: key and value of "key:value", both trimmed.
splitColon(s) == splitColonAt(s, IndexByte(s, ":"))

\* text's fail().
textFail(s) ==
    [ret |-> "",
     err |-> ErrorListF(ESError, "invalid <text string> or %text_macro: " \o s),
     panic |-> FALSE]

\* text of <...>: s2 is what follows the <, rb the index of the first >.
textBracketAt(s, s2, rb) ==
    IF rb = -1 THEN textFail(s)
    ELSE [ret |-> SubSeq(s2, 1, rb),
          err |-> IF rb # Len(s2) - 1
                  THEN ErrorListF(ESError, "extra characters on line: "
                                     \o SubSeq(s2, rb + 2, Len(s2)))
                  ELSE NoErr,
          panic |-> FALSE]

textBracket(s, s2) == textBracketAt(s, s2, IndexByte(s2, ">"))

\* text of %name: r is what getSym returns for name.
textMacroOf(name, r) ==
    IF r.err # NoErr THEN [ret |-> "", err |-> r.err, panic |-> FALSE]
    ELSE CASE r.val.k = "asmInt" ->
                [ret |-> FormatInt(r.val.n), err |-> NoErr, panic |-> FALSE]
           [] r.val.k = "asmExpression" ->
                [ret |-> r.val.text, err |-> NoErr, panic |-> FALSE]
           [] OTHER ->
                [ret |-> "",
                 err |-> ErrorListF(ESError, "can't use " \o Thing(r.val)
                                      \o " as a text string: " \o name),
                 panic |-> FALSE]

textMacro(p, name) == textMacroOf(name, getSym(p, name))

\* parser.text: s as a text string of a conditional directive.  Indexing
\* the first byte of an empty s panics.
text(p, s) ==
    IF Len(s) = 0 THEN [ret |-> "", err |-> NoErr, panic |-> TRUE]
    ELSE IF Char(s, 1) = "<"
    THEN textBracket(s, IF p.syntax = "MASM" THEN TrimSpace(SubSeq(s, 2, Len(s)))
                        ELSE SubSeq(s, 2, Len(s)))
    ELSE IF Char(s, 1) = "%"
    THEN textMacro(p, TrimSpace(toSymCase(p, SubSeq(s, 2, Len(s)))))
    ELSE textFail(s)

isBlankOf(r) == [ret |-> Len(r.ret) = 0, err |-> r.err, panic |-> r.panic]

isBlank(p, s) == isBlankOf(text(p, s))

isEqualOf(r1, r2) ==
    [ret |-> r1.ret = r2.ret, err |-> AddL(r1.err, r2.err),
     panic |-> r1.panic \/ r2.panic]

isEqual(p, s1, s2) == isEqualOf(text(p, s1), text(p, s2))

isEqualFoldOf(r1, r2) ==
    [ret |-> EqualFold(r1.ret, r2.ret), err |-> AddL(r1.err, r2.err),
     panic |-> r1.panic \/ r2.panic]

isEqualFold(p, s1, s2) == isEqualFoldOf(text(p, s1), text(p, s2))

\* Whether evalIf takes the new branch.
evalIfValid(p, match) == match /\ p.ifMatch = p.ifNest

evalIfTo(p, valid) ==
    Result([p EXCEPT !.ifMatch = IF valid THEN p.ifMatch + 1 ELSE p.ifMatch,
                     !.ifNest = p.ifNest + 1,
                     !.ifElse = ~valid], NoErr)

evalIf(p, match) == evalIfTo(p, evalIfValid(p, match))

evalElseif(p, directive, match) ==
    IF p.ifNest = 0
    THEN Result(p, ErrorListF(ESError, "unmatched " \o directive))
    ELSE IF p.ifMatch = p.ifNest
    THEN Result([p EXCEPT !.ifMatch = p.ifMatch - 1], NoErr)
    ELSE IF p.ifMatch = p.ifNest - 1 /\ p.ifElse /\ match
    THEN Result([p EXCEPT !.ifMatch = p.ifMatch + 1, !.ifElse = FALSE], NoErr)
    ELSE Result(p, NoErr)

\* ifidnModeMap: the compare function and the mode of IFIDN(I) and IFDIF(I).
ifidnCompare(name, p, s1, s2) ==
    IF name \in {"IFIDNI", "IFDIFI"} THEN isEqualFold(p, s1, s2)
    ELSE isEqual(p, s1, s2)

ifidnIdentical(name) == name \in {"IFIDN", "IFIDNI"}

IFDEF(p, itemNum, it) ==
    evalIf(p, (toSymCase(p, it.params[1]) \in DOMAIN p.syms) = (it.val = "IFDEF"))

\* IF adds what evalIf returns to the error list of the evaluation.
AddResult(err, e) == Result(e.p, AddL(err, e.err))

IFOf(p, mode, r) ==
    IF r.panic THEN Panicked(p) ELSE AddResult(r.err, evalIf(p, r.ret = mode))

IF_(p, itemNum, it) == IFOf(p, it.val = "IF", evalBool(p, it.params[1]))

\* IFB and IFIDN once the predicate is evaluated: an error list that is not
\* nil is returned without a call of evalIf.
IFBOf(p, mode, r) ==
    IF r.panic THEN Panicked(p)
    ELSE IF r.err # NoErr THEN Result(p, r.err)
    ELSE evalIf(p, r.ret = mode)

IFB(p, itemNum, it) == IFBOf(p, it.val = "IFB", isBlank(p, it.params[1]))

IFIDN(p, itemNum, it) ==
    IFBOf(p, ifidnIdentical(it.val),
          ifidnCompare(it.val, p, it.params[1], it.params[2]))

ELSEIFDEF(p, itemNum, it) ==
    evalElseif(p, it.val,
               (toSymCase(p, it.params[1]) \in DOMAIN p.syms)
                 = (it.val = "ELSEIFDEF"))

ELSEIFOf(p, directive, mode, r) ==
    IF r.panic THEN Panicked(p)
    ELSE AddResult(r.err, evalElseif(p, directive, r.ret = mode))

ELSEIF(p, itemNum, it) ==
    ELSEIFOf(p, it.val, it.val = "ELSEIF", evalBool(p, it.params[1]))

ELSEIFBOf(p, directive, mode, r) ==
    IF r.panic THEN Panicked(p)
    ELSE IF r.err # NoErr THEN Result(p, r.err)
    ELSE evalElseif(p, directive, r.ret = mode)

ELSEIFB(p, itemNum, it) ==
    ELSEIFBOf(p, it.val, it.val = "ELSEIFB", isBlank(p, it.params[1]))

ELSEIFIDN(p, itemNum, it) ==
    ELSEIFBOf(p, it.val, ifidnIdentical(SubSeq(it.val, 5, Len(it.val))),
              ifidnCompare(SubSeq(it.val, 5, Len(it.val)), p,
                           it.params[1], it.params[2]))

ELSE_(p, itemNum, it) == evalElseif(p, "ELSE", TRUE)

\* ENDIF without the test of ifMatch = ifNest, a fault that the property of
\* C1 detects.
ENDIFBoth(p, itemNum, it) ==
    IF p.ifNest = 0
    THEN Result(p, ErrorListF(ESError, "found ENDIF without a matching condition"))
    ELSE Result([p EXCEPT !.ifMatch = p.ifMatch - 1, !.ifElse = FALSE,
                          !.ifNest = p.ifNest - 1], NoErr)

ENDIF(p, itemNum, it) ==
    IF p.ifNest = 0
    THEN Result(p, ErrorListF(ESError, "found ENDIF without a matching condition"))
    ELSE IF p.ifMatch = p.ifNest
    THEN Result([p EXCEPT !.ifMatch = p.ifMatch - 1, !.ifElse = FALSE,
                          !.ifNest = p.ifNest - 1], NoErr)
    ELSE Result([p EXCEPT !.ifNest = p.ifNest - 1], NoErr)

\* One round of OPTION's loop over the parameters.
RECURSIVE OPTIONFrom(_, _, _)
OPTIONSet(p, params, i, key, val) ==
    IF key = "CASEMAP"
    THEN IF val = "NONE"
         THEN OPTIONFrom([p EXCEPT !.symCase = TRUE], params, i + 1)
         ELSE IF val \in {"NOTPUBLIC", "ALL"}
         THEN OPTIONFrom([p EXCEPT !.symCase = FALSE], params, i + 1)
         ELSE Result(p, ErrorListF(ESError,
                "illegal value for OPTION " \o key \o ": " \o val))
    ELSE OPTIONFrom(p, params, i + 1)

OPTIONSplit(p, params, i, kv) ==
    OPTIONSet(p, params, i, ToUpper(kv.key), ToUpper(kv.val))

OPTIONFrom(p, params, i) ==
    IF i > Len(params) THEN Result(p, NoErr)
    ELSE OPTIONSplit(p, params, i, splitColon(params[i]))

OPTION(p, itemNum, it) == OPTIONFrom(p, it.params, 1)

EQUALSOf(p, it, r) ==
    IF r.panic THEN Panicked(p)
    ELSE IF r.err = NoErr THEN ResultOf(setSym(p, it.sym, r.ret, FALSE))
    ELSE Result(p, r.err)

EQUALS(p, itemNum, it) == EQUALSOf(p, it, evalInt(p, it.params[1]))

EQU(p, itemNum, it) ==
    ResultOf(setSym(p, it.sym, asmExpression(it.params[1]), TRUE))

\* NestInfo{name, start, nest}
NestInfo(name, start, nest) == [name |-> name, start |-> start, nest |-> nest]

PROC(p, itemNum, it) ==
    IF p.proc.nest = 0
    THEN Result([p EXCEPT !.proc = NestInfo(it.sym, itemNum, 1)], NoErr)
    ELSE Result([p EXCEPT !.proc.nest = p.proc.nest + 1],
                ErrorListF(ESError, "ignoring nested procedure " \o it.sym))

ENDP(p, itemNum, it) ==
    IF p.proc.nest = 0
    THEN Result(p, ErrorListF(ESError,
           "ignoring procedure " \o it.sym \o " without a PROC directive"))
    ELSE Result([p EXCEPT !.proc.nest = p.proc.nest - 1],
                IF p.proc.nest = 1
                THEN ErrorListF(ESError,
                       "found procedure " \o p.proc.name
                         \o " ranging from lex items #" \o FormatInt(p.proc.start)
                         \o "-#" \o FormatInt(itemNum))
                ELSE NoErr)

\* asmMacroArg{name, typ, def} and asmMacro{args, code, locals}
asmMacroArg(name, typ, def) == [name |-> name, typ |-> typ, def |-> def]

asmMacro(args, code, locals) ==
    [k |-> "asmMacro", args |-> args, code |-> code, locals |-> locals]

\* What newMacro's loop over the header's parameters yields when it ends
\* newMacro with an error list or a panic.
newMacroFails(err, panic) ==
    [args |-> <<>>, err |-> err, failed |-> TRUE, panic |-> panic]

RECURSIVE newMacroArgs(_, _, _, _)

\* A parameter with a default (name:=<text>): t is the default's text.
newMacroDefault(p, params, i, args, name, t) ==
    IF t.panic THEN newMacroFails(NoErr, TRUE)
    ELSE IF t.err # NoErr THEN newMacroFails(t.err, FALSE)
    ELSE newMacroArgs(p, params, i + 1, Append(args, asmMacroArg(name, "=", t.ret)))

\* newMacro's round for a header whose REST or VARARG parameter may be in
\* any place
newMacroArgAnyPlace(p, params, i, args, name, typ, typOrg) ==
    IF typ \in {"REST", "VARARG", "", "REQ"}
    THEN newMacroArgs(p, params, i + 1, Append(args, asmMacroArg(name, typ, "")))
    ELSE IF Char(typOrg, 1) = "="
    THEN newMacroDefault(p, params, i, args, name,
                         text(p, TrimSpace(SubSeq(typOrg, 2, Len(typOrg)))))
    ELSE newMacroFails(ErrorListF(ESError,
           "invalid macro argument type: " \o typ), FALSE)

\* One round of newMacro's loop over the parameters of the macro header.
newMacroArg(p, params, i, args, name, typ, typOrg) ==
    IF typ \in {"REST", "VARARG"}
    THEN IF i # Len(params)
         THEN newMacroFails(ErrorListF(ESError,
                name \o ":" \o typ \o " must be the last parameter"), FALSE)
         ELSE newMacroArgs(p, params, i + 1, Append(args, asmMacroArg(name, typ, "")))
    ELSE IF typ \in {"", "REQ"}
    THEN newMacroArgs(p, params, i + 1, Append(args, asmMacroArg(name, typ, "")))
    ELSE IF Char(typOrg, 1) = "="
    THEN newMacroDefault(p, params, i, args, name,
                         text(p, TrimSpace(SubSeq(typOrg, 2, Len(typOrg)))))
    ELSE newMacroFails(ErrorListF(ESError,
           "invalid macro argument type: " \o typ), FALSE)

newMacroSplit(p, params, i, args, kv) ==
    newMacroArg(p, params, i, args, toSymCase(p, kv.key), ToUpper(kv.val), kv.val)

\* newMacro's loop over the parameters of the macro header: the arguments,
\* or the error that ends newMacro.
newMacroArgs(p, params, i, args) ==
    IF i > Len(params)
    THEN [args |-> args, err |-> NoErr, failed |-> FALSE, panic |-> FALSE]
    ELSE newMacroSplit(p, params, i, args, splitColon(params[i]))

\* newMacro's loop over the macro body: LOCAL directives that lead the body
\* give the locals and leave the code, later ones are reported and stay.
RECURSIVE newMacroLocals(_, _, _, _, _, _)
newMacroLocals(p, code, i, locals, localsAllowed, err) ==
    IF i > Len(code) THEN [code |-> code, locals |-> locals, err |-> err]
    ELSE IF EqualFold(code[i].val, "LOCAL")
    THEN IF localsAllowed
         THEN newMacroLocals(p, SubSeq(code, i + 1, Len(code)), i,
                             locals \o [j \in 1..Len(code[i].params) |->
                                          toSymCase(p, code[i].params[j])],
                             localsAllowed, err)
         ELSE newMacroLocals(p, code, i + 1, locals, localsAllowed,
                             AddF(err, ESError,
                               "LOCAL directives must come first in a macro body, ignoring: "
                                  \o JoinParams(code[i].params)))
    ELSE newMacroLocals(p, code, i + 1, locals, FALSE, err)

newMacroOf(a, l) ==
    IF a.failed
    THEN [val |-> asmMacro(<<>>, <<>>, <<>>), err |-> a.err, panic |-> a.panic]
    ELSE [val |-> asmMacro(a.args, l.code, l.locals), err |-> l.err,
          panic |-> FALSE]

\* newMacro: the multiline macro that ends at itemNum.
newMacro(p, itemNum) ==
    newMacroOf(newMacroArgs(p, p.instructions[p.macro.start + 1].params, 1, <<>>),
               newMacroLocals(p, SubSeq(p.instructions, p.macro.start + 2, itemNum),
                              1, <<>>, TRUE, NoErr))

MACRO(p, itemNum, it) ==
    IF p.macro.nest = 0
    THEN Result([p EXCEPT !.macro = NestInfo(it.sym, itemNum, 1)], NoErr)
    ELSE Result([p EXCEPT !.macro.nest = p.macro.nest + 1], NoErr)

\* The end of ENDM: s is the parser and the error list so far.
ENDMClose(s) ==
    Result([s.p EXCEPT !.macro.name = "", !.macro.nest = s.p.macro.nest - 1], s.err)

ENDMOf(p, m) ==
    IF m.panic THEN Panicked(p)
    ELSE IF m.err = NoErr THEN ENDMClose(setSym(p, p.macro.name, m.val, FALSE))
    ELSE ENDMClose([p |-> p, err |-> m.err])

ENDM(p, itemNum, it) ==
    IF p.macro.nest = 1 /\ p.macro.name # "" THEN ENDMOf(p, newMacro(p, itemNum))
    ELSE Result([p EXCEPT !.macro.nest = p.macro.nest - 1], NoErr)

\* The placeholder of the blocks that end with ENDM without being a MACRO.
DummyMacro(p, itemNum, it) ==
    Result([p EXCEPT !.macro.nest = p.macro.nest + 1], NoErr)

\* The flags of the @CPU value.
cpu8086 == 1
cpu186 == 2
cpu286 == 4
cpu386 == 8
cpu486 == 16
cpu586 == 32
cpu686 == 64
cpuPriv == 128
cpu8087 == 256
cpu287 == 1024
cpu387 == 2048
cpuX64 == 4096

f8086 == BitOr(cpu8086, cpu8087)
f186 == BitOr(f8086, cpu186)
f286 == BitOr(BitOr(f186, cpu286), cpu287)
f386 == BitOr(BitOr(f286, cpu386), cpu387)
f486 == BitOr(f386, cpu486)
f586 == BitOr(f486, cpu586)
f686 == BitOr(f586, cpu686)
fX64 == BitOr(f686, cpuX64)
fCPUMask == -BitOr(BitOr(cpu8087, cpu287), cpu387) - 1

cpuMap ==
    [name \in {"8086", "186", "286", "386", "486", "586", "686", "X64"} |->
        CASE name = "8086" -> f8086 [] name = "186" -> f186
          [] name = "286" -> f286 [] name = "386" -> f386
          [] name = "486" -> f486 [] name = "586" -> f586
          [] name = "686" -> f686 [] name = "X64" -> fX64]

fpuMap ==
    [name \in {"8087", "287", "387"} |->
        CASE name = "8087" -> cpu8087
          [] name = "287" -> BitOr(cpu8087, cpu287)
          [] name = "387" -> BitOr(BitOr(cpu8087, cpu287), cpu387)]

\* setCPUFlags without the bits of the previous setting
setCPUFlagsFresh(p, d, cpu) ==
    IF d \in DOMAIN cpuMap THEN BitOr(cpu, cpuMap[d])
    ELSE IF d \in DOMAIN fpuMap THEN BitOr(cpu, fpuMap[d])
    ELSE cpu

\* The flags setCPU computes for the directive d without its suffix, cpu
\* being cpuPriv for the suffix P.
setCPUFlags(p, d, cpu) ==
    IF d \in DOMAIN cpuMap THEN BitOr(cpu, cpuMap[d])
    ELSE IF d \in DOMAIN fpuMap
    THEN BitOr(IF "@CPU" \in DOMAIN p.syms
               THEN BitOr(cpu, BitAnd(p.syms["@CPU"].val.n, fCPUMask))
               ELSE cpu,
               fpuMap[d])
    ELSE cpu

setCPUWordsize(cpu) ==
    IF BitAnd(cpu, cpuX64) # 0 THEN 8
    ELSE IF BitAnd(cpu, cpu386) # 0 THEN 4 ELSE 2

setCPUSecond(s1, wordsize) ==
    AddResult(s1.err, setSym(s1.p, "@WORDSIZE", asmInt(wordsize, 0, 0), FALSE))

setCPUSyms(p, cpu) ==
    setCPUSecond(setSym(p, "@CPU", asmInt(cpu, 0, 2), FALSE), setCPUWordsize(cpu))

setCPU(p, directive) ==
    IF Char(directive, Len(directive)) \in {"C", "N"}
    THEN setCPUSyms(p, setCPUFlags(p, SubSeq(directive, 1, Len(directive) - 1), 0))
    ELSE IF Char(directive, Len(directive)) = "P"
    THEN setCPUSyms(p, setCPUFlags(p, SubSeq(directive, 1, Len(directive) - 1),
                                   cpuPriv))
    ELSE setCPUSyms(p, setCPUFlags(p, directive, 0))

missingRequiredSym(it) ==
    IF it.sym = "" THEN ErrorListF(ESError, it.val \o " needs a name") ELSE NoErr

\* The directive without the suffix C, N or P that setCPU cuts off.
setCPUName(directive) ==
    IF Char(directive, Len(directive)) \in {"C", "N", "P"}
    THEN SubSeq(directive, 1, Len(directive) - 1)
    ELSE directive

\* setCPU's type assertion on the value of @CPU, made for the directives of
\* the FPUs, panics when the symbol holds no asmInt.
setCPUPanics(p, directive) ==
    /\ setCPUName(directive) \notin DOMAIN cpuMap
    /\ setCPUName(directive) \in DOMAIN fpuMap
    /\ "@CPU" \in DOMAIN p.syms
    /\ p.syms["@CPU"].val.k # "asmInt"

\* CPU: the directive without its first character names the CPU.
CPU(p, itemNum, it) ==
    IF setCPUPanics(p, SubSeq(it.val, 2, Len(it.val))) THEN Panicked(p)
    ELSE ResultOf(setCPU(p, SubSeq(it.val, 2, Len(it.val))))

\* A pointer to the asmSegment of the given name.  SEGMENT makes an
\* asmSegment only for a name that no symbol has, and stores the pointer to
\* it under that name, where no directive removes it: the segments that
\* exist differ in their names, and p.segs holds them by name.
segPtr(name) == [k |-> "*asmSegment", name |-> name]

\* SEGMENT's loop over the attributes of the first parameter: the wordsize
\* that the attributes leave and the error list.
RECURSIVE segmentAttributes(_, _, _)
segmentAttribute(r, wordsize, errList) ==
    segmentAttributes(r.stream,
                      CASE ToUpper(r.ret) = "USE16" -> 2
                        [] ToUpper(r.ret) = "USE32" -> 4
                        [] ToUpper(r.ret) = "USE64" -> 8
                        [] OTHER -> wordsize,
                      AddL(errList, r.err))

segmentAttributes(stream, wordsize, errList) ==
    IF peek(stream) = eof THEN [wordsize |-> wordsize, err |-> errList]
    ELSE segmentAttribute(nextSegmentParam(stream), wordsize, errList)

\* The end of SEGMENT: the segment is made the current one.
SEGMENTEnter(p, seg, errList) ==
    AddResult(errList,
              setSym([p EXCEPT !.segs = (seg.name :> [seg EXCEPT !.prev = p.seg])
                                           @@ p.segs,
                               !.seg = segPtr(seg.name),
                               !.segNest = p.segNest + 1],
                     seg.name, segPtr(seg.name), FALSE))

\* SEGMENT once the attributes are read: p is the parser with the wordsize
\* the attributes gave a segment that existed.
SEGMENTChecked(p, cpuWordSize, seg, errList) ==
    IF seg.wordsize > cpuWordSize /\ seg.wordsize = 4
    THEN Result(p, AddF(errList, ESError,
                  "32-bit segments require at least a .386 CPU setting"))
    ELSE IF seg.wordsize > cpuWordSize /\ seg.wordsize = 8
    THEN Result(p, AddF(errList, ESError,
                  "64-bit segments require at least a .X64 CPU setting"))
    ELSE SEGMENTEnter(p, seg, errList)

SEGMENTWith(p, cpuWordSize, seg, a) ==
    SEGMENTChecked(IF seg.name \in DOMAIN p.segs
                   THEN [p EXCEPT !.segs[seg.name].wordsize = a.wordsize]
                   ELSE p,
                   cpuWordSize, [seg EXCEPT !.wordsize = a.wordsize], a.err)

\* SEGMENT for the segment seg, which is the one the symbol points to or a
\* new one.
SEGMENTOf(p, it, cpuWordSize, seg) ==
    SEGMENTWith(p, cpuWordSize, seg,
                IF Len(it.params) > 0
                THEN segmentAttributes(newLexStream(it.params[1]), seg.wordsize,
                                       NoErr)
                ELSE [wordsize |-> seg.wordsize, err |-> NoErr])

SEGMENTFor(p, it, sym, cpuWordSize) ==
    IF sym \in DOMAIN p.syms
    THEN IF p.syms[sym].val.k = "*asmSegment"
         THEN SEGMENTOf(p, it, cpuWordSize, p.segs[p.syms[sym].val.name])
         ELSE Result(p, ErrorListF(ESError,
                "cannot redeclare " \o sym \o " as a segment, ignoring"))
    ELSE SEGMENTOf(p, it, cpuWordSize, asmSegment(sym, cpuWordSize))

\* SEGMENT.  The type assertion on @WORDSIZE panics when the symbol is
\* missing or no integer; the integer is not negative in this model.
SEGMENT(p, itemNum, it) ==
    IF "@WORDSIZE" \notin DOMAIN p.syms \/ p.syms["@WORDSIZE"].val.k # "asmInt"
    THEN Panicked(p)
    ELSE SEGMENTFor(p, it, toSymCase(p, it.sym), p.syms["@WORDSIZE"].val.n)

\* DATA's widthMap
widthMap ==
    [name \in {"DB", "DW", "DD", "DF", "DP", "DQ", "DT"} |->
        CASE name = "DB" -> 1 [] name = "DW" -> 2 [] name = "DD" -> 4
          [] name \in {"DF", "DP"} -> 6 [] name = "DQ" -> 8 [] name = "DT" -> 10]

\* DATA: an item with a symbol in a segment defines the symbol as a constant
\* pointer to data of the directive's width, its offset unknown.
DATA(p, itemNum, it) ==
    IF it.sym # "" /\ p.seg # Nil
    THEN ResultOf(setSym(p, it.sym,
                         [k |-> "asmDataPtr", seg |-> p.seg, off |-> -1,
                          w |-> widthMap[it.val]], TRUE))
    ELSE Result(p, NoErr)

\* asmStruc.Name
strucName(v) == IF v.name = "" THEN "(unnamed)" ELSE v.name

\* ErrorListOpen for a structure: the arrow between the names is written <-.
RECURSIVE OpenNames(_)
OpenNames(block) ==
    IF block = Nil THEN "" ELSE " <- " \o strucName(block) \o OpenNames(block.prev)

ErrorListOpen(block) ==
    ErrorListF(ESError,
               (IF block.prev # Nil THEN "open structures: " ELSE "open structure: ")
                  \o strucName(block) \o OpenNames(block.prev))

ENDSFor(p, sym) ==
    IF p.seg # Nil /\ p.segs[p.seg.name].name = sym
    THEN Result([p EXCEPT !.struc = Nil,
                          !.seg = p.segs[p.seg.name].prev,
                          !.segNest = p.segNest - 1],
                IF p.struc # Nil THEN ErrorListOpen(p.struc) ELSE NoErr)
    ELSE IF p.struc # Nil
            /\ sym = (IF p.struc.prev = Nil THEN p.struc.name ELSE "")
    THEN Result([p EXCEPT !.struc = p.struc.prev], NoErr)
    ELSE Result(p, ErrorListF(ESError, "unmatched ENDS: " \o sym))

ENDS(p, itemNum, it) == ENDSFor(p, toSymCase(p, it.sym))

STRUCOpen(p, it, sym) ==
    Result([p EXCEPT !.struc = asmStruc(sym,
                                        IF it.val = "UNION" THEN sUnion ELSE sStruc,
                                        p.struc)],
           NoErr)

\* STRUC, also for STRUCT and UNION.
STRUC(p, itemNum, it) ==
    IF p.struc # Nil
    THEN IF it.sym # ""
         THEN Result(p, ErrorListF(ESError,
                "name of nested structure must come after " \o it.val
                    \o ": " \o it.sym))
         ELSE STRUCOpen(p, it, IF Len(it.params) > 0 THEN it.params[1] ELSE it.sym)
    ELSE IF it.sym = "" THEN Result(p, missingRequiredSym(it))
    ELSE STRUCOpen(p, it, it.sym)

\* asmDataPtr{et, chunk, off, w}: off is Nil for a position that is unknown.
asmDataPtr(et, chunk, off, w) ==
    [k |-> "asmDataPtr", et |-> et, chunk |-> chunk, off |-> off, w |-> w]

\* A pointer to the asmStruc v, which the parser holds as the innermost open
\* structure: the structures that are open differ in their depth.
RECURSIVE strucDepth(_)
strucDepth(v) == IF v.prev = Nil THEN 1 ELSE 1 + strucDepth(v.prev)

strucPtr(v) == [k |-> "*asmStruc", name |-> v.name, depth |-> strucDepth(v)]

\* SymMap.Set on the members of the innermost structure: as setSym, a symbol
\* that is constant is not replaced.
membersSet(p, realName, val, constant) ==
    IF realName \in DOMAIN p.struc.members /\ p.struc.members[realName].constant
    THEN [p |-> p,
          err |-> ErrorListF(ESError,
                    "constant symbol " \o realName \o " already defined elsewhere")]
    ELSE [p |-> [p EXCEPT !.struc.members =
                            (realName :> symbol(val, constant)) @@ p.struc.members],
          err |-> NoErr]

\* asmSegment.AddPointer
segAddPointer(p, sym, ptr) == setSym(p, sym, ptr, TRUE)

\* asmStruc.AddPointer once the global symbol table is dealt with.
strucAddMember(s, sym, ptr) ==
    AddResult(s.err, membersSet(s.p, toSymCase(s.p, sym), ptr, TRUE))

\* asmStruc.AddPointer
strucAddPointer(p, sym, ptr) ==
    IF p.struc.prev = Nil /\ p.syntax = "TASM"
    THEN strucAddMember(setSym(p, sym, ptr, TRUE), sym, ptr)
    ELSE strucAddMember([p |-> p, err |-> NoErr], sym, ptr)

\* The segment is the target in the place of an open structure
CurrentEmissionTargetSeg(p) == p.seg

\* CurrentEmissionTarget: a pointer to the open structure or to the segment.
CurrentEmissionTarget(p) == IF p.struc # Nil THEN strucPtr(p.struc) ELSE p.seg

\* et.Offset() for the target that et points to.
targetOffset(p, et) ==
    IF et.k = "*asmStruc" THEN strucOffset(p.struc) ELSE segOffset(p.segs[et.name])

\* EmitPointer from the pointer on.
EmitPointerAdd(p, sym, et, ptr) ==
    IF et.k = "*asmStruc" THEN ResultOf(strucAddPointer(p, sym, ptr))
    ELSE ResultOf(segAddPointer(p, sym, ptr))

\* EmitPointer once the target is known, o being what its Offset returns.
EmitPointerAt(p, sym, width, et, o) ==
    EmitPointerAdd(p, sym, et,
                   asmDataPtr(et, o.chunk, IF p.pass2 THEN o.off ELSE Nil, width))

\* EmitPointer for the target et: Offset dereferences the pointer, and a
\* nil one ends the program.
EmitPointerTo(p, sym, width, et) ==
    IF et = Nil THEN Panicked(p)
    ELSE EmitPointerAt(p, sym, width, et, targetOffset(p, et))

\* parser.EmitPointer
EmitPointer(p, sym, width) ==
    IF sym = "" THEN Result(p, NoErr)
    ELSE EmitPointerTo(p, sym, width, CurrentEmissionTarget(p))

\* Range{Min, Max}: a negative Max is no upper limit.
Range(min, max) == [Min |-> min, Max |-> max]

pReq(r) == Range(r, r)

\* The flags of a keyword.
Declarator == "Declarator"
Conditional == "Conditional"
Macro == "Macro"
CodeBlock == "CodeBlock"
Emit == "Emit"
EmitCode == "EmitCode"

Keyword(parse, type, paramRange) ==
    [Parse |-> parse, Type |-> type, ParamRange |-> paramRange]

IfNames == {"IF", "IFE", "IFDEF", "IFNDEF", "IFB", "IFNB",
            "IFIDN", "IFIDNI", "IFDIF", "IFDIFI"}

\* The directives that set the CPU and the FPU.
CPUNames == {".8086", ".186", ".286", ".386", ".486", ".586", ".686", ".X64",
             ".8087", ".287", ".387",
             ".286C", ".286P", ".386C", ".386N", ".386P", ".686P", ".X64P"}

ElseifNames == {"ELSEIF", "ELSEIFE", "ELSEIFDEF", "ELSEIFNDEF", "ELSEIFB",
                "ELSEIFNB", "ELSEIFIDN", "ELSEIFIDNI", "ELSEIFDIF", "ELSEIFDIFI"}

\* The keyword table, which the sources at hand use but do not hold: the
\* entries of the directives whose parse functions are modelled above, with
\* the flags the specification gives them.  Parse names the parse function,
\* "" is a keyword without one.
Keywords ==
    [name \in IfNames \cup ElseifNames \cup
              {"ELSE", "ENDIF", "=", "EQU", "OPTION", "PROC", "ENDP",
               "MACRO", "ENDM", "LOCAL", "IRP", "IRPC", "REPT",
               "SEGMENT", "ENDS", "STRUC", "STRUCT", "UNION"} \cup CPUNames |->
        CASE name \in {"IF", "IFE"} -> Keyword("IF", {Conditional}, pReq(1))
          [] name \in {"IFDEF", "IFNDEF"} -> Keyword("IFDEF", {Conditional}, pReq(1))
          [] name \in {"IFB", "IFNB"} -> Keyword("IFB", {Conditional}, pReq(1))
          [] name \in {"IFIDN", "IFIDNI", "IFDIF", "IFDIFI"} ->
                Keyword("IFIDN", {Conditional}, pReq(2))
          [] name \in {"ELSEIF", "ELSEIFE"} -> Keyword("ELSEIF", {Conditional}, pReq(1))
          [] name \in {"ELSEIFDEF", "ELSEIFNDEF"} ->
                Keyword("ELSEIFDEF", {Conditional}, pReq(1))
          [] name \in {"ELSEIFB", "ELSEIFNB"} ->
                Keyword("ELSEIFB", {Conditional}, pReq(1))
          [] name \in {"ELSEIFIDN", "ELSEIFIDNI", "ELSEIFDIF", "ELSEIFDIFI"} ->
                Keyword("ELSEIFIDN", {Conditional}, pReq(2))
          [] name = "ELSE" -> Keyword("ELSE", {Conditional}, pReq(0))
          [] name = "ENDIF" -> Keyword("ENDIF", {Conditional}, pReq(0))
          [] name = "=" -> Keyword("EQUALS", {Declarator}, pReq(1))
          [] name = "EQU" -> Keyword("EQU", {Declarator}, pReq(1))
          [] name = "OPTION" -> Keyword("OPTION", {}, Range(1, -1))
          [] name = "PROC" -> Keyword("PROC", {Declarator, CodeBlock}, Range(0, -1))
          [] name = "ENDP" -> Keyword("ENDP", {Declarator, CodeBlock}, pReq(0))
          [] name = "MACRO" -> Keyword("MACRO", {Declarator, Macro}, Range(0, -1))
          [] name = "ENDM" -> Keyword("ENDM", {Macro}, pReq(0))
          [] name = "LOCAL" -> Keyword("", {}, Range(1, -1))
          [] name \in {"IRP", "IRPC", "REPT"} ->
                Keyword("DummyMacro", {Macro}, Range(1, -1))
          [] name = "SEGMENT" -> Keyword("SEGMENT", {Declarator, CodeBlock}, Range(0, -1))
          [] name = "ENDS" -> Keyword("ENDS", {}, pReq(0))
          [] name \in {"STRUC", "STRUCT", "UNION"} -> Keyword("STRUC", {}, Range(0, 1))
          [] name \in CPUNames -> Keyword("CPU", {}, pReq(0))]

\* The call k.Parse(p, itemNum, it).
Parse(k, p, itemNum, it) ==
    CASE k.Parse = "IF" -> IF_(p, itemNum, it)
      [] k.Parse = "IFDEF" -> IFDEF(p, itemNum, it)
      [] k.Parse = "IFB" -> IFB(p, itemNum, it)
      [] k.Parse = "IFIDN" -> IFIDN(p, itemNum, it)
      [] k.Parse = "ELSEIF" -> ELSEIF(p, itemNum, it)
      [] k.Parse = "ELSEIFDEF" -> ELSEIFDEF(p, itemNum, it)
      [] k.Parse = "ELSEIFB" -> ELSEIFB(p, itemNum, it)
      [] k.Parse = "ELSEIFIDN" -> ELSEIFIDN(p, itemNum, it)
      [] k.Parse = "ELSE" -> ELSE_(p, itemNum, it)
      [] k.Parse = "ENDIF" -> ENDIF(p, itemNum, it)
      [] k.Parse = "EQUALS" -> EQUALS(p, itemNum, it)
      [] k.Parse = "EQU" -> EQU(p, itemNum, it)
      [] k.Parse = "OPTION" -> OPTION(p, itemNum, it)
      [] k.Parse = "PROC" -> PROC(p, itemNum, it)
      [] k.Parse = "ENDP" -> ENDP(p, itemNum, it)
      [] k.Parse = "MACRO" -> MACRO(p, itemNum, it)
      [] k.Parse = "ENDM" -> ENDM(p, itemNum, it)
      [] k.Parse = "DummyMacro" -> DummyMacro(p, itemNum, it)
      [] k.Parse = "CPU" -> CPU(p, itemNum, it)
      [] k.Parse = "SEGMENT" -> SEGMENT(p, itemNum, it)
      [] k.Parse = "ENDS" -> ENDS(p, itemNum, it)
      [] k.Parse = "STRUC" -> STRUC(p, itemNum, it)
      [] k.Parse = "DATA" -> DATA(p, itemNum, it)

\* checkParamRange: whether the item has the parameters the range requires,
\* and the message logged when the count is outside the range.
checkParamRangeOf(it, r, given, below) ==
    [ok |-> ~below,
     log |-> IF below
             THEN ErrorListF(ESError, ToUpper(it.val) \o " requires at least "
                    \o FormatInt(r.Min) \o " parameters, "
                    \o FormatInt(given) \o " given")
             ELSE IF r.Max >= 0 /\ given > r.Max
             THEN ErrorListF(ESWarning, ToUpper(it.val) \o
                    (IF r.Max = 0 THEN " accepts no parameters"
                     ELSE " accepts a maximum of " \o FormatInt(r.Max)
                            \o " parameters"))
             ELSE NoErr]

checkParamRange(it, r) ==
    checkParamRangeOf(it, r, Len(it.params), Len(it.params) < r.Min)

checkSyntaxRange(r) ==
    [err |-> IF r.ok THEN NoErr ELSE r.log, log |-> IF r.ok THEN r.log ELSE NoErr]

\* checkSyntaxFor: the error list that keeps the keyword from being parsed,
\* and what was logged.
checkSyntaxFor(it, k) ==
    IF Declarator \in k.Type /\ it.sym = ""
    THEN [err |-> missingRequiredSym(it), log |-> NoErr]
    ELSE checkSyntaxRange(checkParamRange(it, k.ParamRange))

\* fmt.Sprintf("??%04X", n)
HexDigits == "0123456789ABCDEF"

RECURSIVE FormatHex(_)
FormatHex(n) ==
    IF n < 16 THEN Char(HexDigits, n + 1)
    ELSE FormatHex(n \div 16) \o Char(HexDigits, (n % 16) + 1)

RECURSIVE PadLeft(_, _)
PadLeft(s, width) == IF Len(s) >= width THEN s ELSE PadLeft("0" \o s, width)

\* The name of a local without the question marks
LocalNameBare(n) == PadLeft(FormatHex(n), 4)

\* The name that expandMacro gives the local of number n
LocalName(n) == "??" \o PadLeft(FormatHex(n), 4)

setArgText(replaceMap, name, t) ==
    IF t.err # NoErr \/ t.panic
    THEN [got |-> FALSE, err |-> t.err, replaceMap |-> replaceMap, panic |-> t.panic]
    ELSE [got |-> TRUE, err |-> NoErr, replaceMap |-> (name :> t.ret) @@ replaceMap,
          panic |-> FALSE]

\* setArg without the test for an empty parameter
setArgAny(p, it, replaceMap, name, i) ==
    IF ~(Len(it.params) > i)
    THEN [got |-> FALSE, err |-> NoErr, replaceMap |-> replaceMap, panic |-> FALSE]
    ELSE [got |-> TRUE, err |-> NoErr,
          replaceMap |-> (name :> it.params[i + 1]) @@ replaceMap, panic |-> FALSE]

\* expandMacro's setArg: binds name to parameter i (counted from 0) of the
\* call when the call has a non-empty one.
setArg(p, it, replaceMap, name, i) ==
    IF ~(Len(it.params) > i /\ Len(it.params[i + 1]) > 0)
    THEN [got |-> FALSE, err |-> NoErr, replaceMap |-> replaceMap, panic |-> FALSE]
    ELSE IF Char(it.params[i + 1], 1) \in {"<", "%"}
    THEN setArgText(replaceMap, name, text(p, it.params[i + 1]))
    ELSE [got |-> TRUE, err |-> NoErr,
          replaceMap |-> (name :> it.params[i + 1]) @@ replaceMap, panic |-> FALSE]

RECURSIVE expandArgs(_, _, _, _, _, _)

\* One round of expandMacro's loop for an argument that is neither REST nor
\* VARARG, a being what setArg returns.
expandArgSet(p, m, it, i, replaceMap, errList, arg, a) ==
    IF a.panic THEN [replaceMap |-> replaceMap, err |-> errList, panic |-> TRUE]
    ELSE expandArgs(p, m, it, i + 1, a.replaceMap,
                    IF arg.typ = "REQ" /\ ~a.got
                    THEN AddF(AddL(errList, a.err), ESError,
                           "macro argument #" \o FormatInt(i + 1)
                             \o " (" \o arg.name \o ") is required")
                    ELSE AddL(errList, a.err))

expandArg(p, m, it, i, replaceMap, errList, arg) ==
    IF arg.typ \in {"REST", "VARARG"}
    THEN IF i > Len(it.params)
         THEN [replaceMap |-> replaceMap, err |-> errList, panic |-> TRUE]
         ELSE expandArgs(p, m, it, i + 1,
                (arg.name :> JoinParams(SubSeq(it.params, i + 1, Len(it.params))))
                   @@ replaceMap,
                errList)
    ELSE expandArgSet(p, m, it, i, replaceMap, errList, arg,
                      setArg(p, it, (arg.name :> arg.def) @@ replaceMap, arg.name, i))

\* expandMacro's loop over the arguments of the macro (i counted from 0).
expandArgs(p, m, it, i, replaceMap, errList) ==
    IF i >= Len(m.args)
    THEN [replaceMap |-> replaceMap, err |-> errList, panic |-> FALSE]
    ELSE expandArg(p, m, it, i, replaceMap, errList, m.args[i + 1])

\* expandMacro's loop over the locals of the macro.
RECURSIVE expandLocals(_, _, _, _)
expandLocals(locals, i, replaceMap, macroLocalCount) ==
    IF i > Len(locals)
    THEN [replaceMap |-> replaceMap, macroLocalCount |-> macroLocalCount]
    ELSE expandLocals(locals, i + 1,
                      (locals[i] :> LocalName(macroLocalCount)) @@ replaceMap,
                      macroLocalCount + 1)

RECURSIVE replaceFrom(_, _, _, _, _)

\* One round of replace's loop once the token t is read, ret holding the
\* text so far with the whitespace before the token.
replaceToken(p, replaceMap, ret, andCached, t, key) ==
    IF t.ret = "&" THEN replaceFrom(p, replaceMap, t.stream, ret, TRUE)
    ELSE IF key \in DOMAIN replaceMap
    THEN replaceFrom(p, replaceMap,
                     IF peek(t.stream) = "&" THEN next(t.stream) ELSE t.stream,
                     ret \o replaceMap[key], FALSE)
    ELSE IF andCached
    THEN replaceFrom(p, replaceMap, t.stream, ret \o "&" \o t.ret, FALSE)
    ELSE replaceFrom(p, replaceMap, t.stream, ret \o t.ret, FALSE)

replaceRead(p, replaceMap, ret, andCached, t) ==
    replaceToken(p, replaceMap, ret, andCached, t, toSymCase(p, t.ret))

replaceAt(p, replaceMap, stream, ret, andCached, s1) ==
    replaceRead(p, replaceMap, ret \o SubSeq(stream.input, stream.c + 1, s1.c),
                andCached, nextToken(s1, shuntDelim))

\* The loop of expandMacro's replace.
replaceFrom(p, replaceMap, stream, ret, andCached) ==
    IF peek(stream) = eof THEN ret
    ELSE replaceAt(p, replaceMap, stream, ret, andCached, ignore(stream, whitespace))

\* expandMacro's replace: s with the tokens that replaceMap binds replaced.
replace(p, replaceMap, s) == replaceFrom(p, replaceMap, newLexStream(s), "", FALSE)

\* The item expandMacro makes of a line of the macro's code.
expanded(p, replaceMap, line) ==
    [typ |-> line.typ,
     sym |-> replace(p, replaceMap, line.sym),
     val |-> replace(p, replaceMap, line.val),
     params |-> [j \in 1..Len(line.params) |->
                    replace(p, replaceMap, line.params[j])]]

NoMap == [name \in {} |-> ""]

\* eval and expandMacro yield the parser after the call, the error lists
\* printed during the call (log), and whether the call crashed the program.
RECURSIVE eval(_, _)
RECURSIVE expandCode(_, _, _, _, _)

expandCodeNext(replaceMap, code, i, log, r) ==
    IF r.panic THEN [p |-> r.p, log |-> log \o r.log, panic |-> TRUE]
    ELSE expandCode(r.p, replaceMap, code, i + 1, log \o r.log)

\* expandMacro's loop that evaluates the lines of the macro's code.
expandCode(p, replaceMap, code, i, log) ==
    IF i > Len(code) THEN [p |-> p, log |-> log, panic |-> FALSE]
    ELSE expandCodeNext(replaceMap, code, i, log,
                        eval(p, expanded(p, replaceMap, code[i])))

expandMacroRun(err, c) ==
    [ret |-> FALSE, err |-> err, p |-> c.p, log |-> c.log, panic |-> c.panic]

expandMacroLocals(p, m, a, l) ==
    expandMacroRun(a.err,
                   expandCode([p EXCEPT !.macroLocalCount = l.macroLocalCount],
                              l.replaceMap, m.code, 1, NoErr))

expandMacroArgs(p, m, a) ==
    IF a.panic
    THEN [ret |-> TRUE, err |-> NoErr, p |-> p, log |-> NoErr, panic |-> TRUE]
    ELSE IF a.err # NoErr
    THEN [ret |-> TRUE, err |-> a.err, p |-> p, log |-> NoErr, panic |-> FALSE]
    ELSE expandMacroLocals(p, m, a,
                           expandLocals(m.locals, 1, a.replaceMap, p.macroLocalCount))

\* expandMacro with the numbers of the locals taken before the arguments
\* are looked at, a fault that the property of C38 detects.
expandMacroEager(p, m, it) ==
    expandMacroArgs([p EXCEPT !.macroLocalCount = @ + Len(m.locals)], m,
                    expandArgs(p, m, it, 0, NoMap, NoErr))

\* expandMacro: ret is TRUE when the expansion failed.
expandMacro(p, m, it) == expandMacroArgs(p, m, expandArgs(p, m, it, 0, NoMap, NoErr))

\* The first lines of eval: a parser without a symbol map gets one, with the
\* symbols of the 8086.
evalInitSyms(p) == IF DOMAIN p.syms = {} THEN setCPU(p, "8086").p ELSE p

\* Whether eval leaves an item of the flags typ alone.
\* eval without the early return, a fault that the property of C3 detects.
evalSkipsNever(p, typ) == FALSE

evalSkips(p, typ) == ~(Conditional \in typ \/ p.ifMatch >= p.ifNest)

\* The end of eval: the item is kept in the instruction list when ret holds.
evalKeep(p, it, ret) ==
    IF ret THEN [p EXCEPT !.instructions = Append(p.instructions, it)] ELSE p

evalParsed(k, it, c, r) ==
    IF r.panic THEN [p |-> r.p, log |-> NoErr, panic |-> TRUE]
    ELSE [p |-> evalKeep(r.p, it, Conditional \notin k.Type),
          log |-> c.log \o r.err, panic |-> FALSE]

evalChecked(p, k, it, c) ==
    IF c.err = NoErr /\ k.Parse # ""
    THEN evalParsed(k, it, c, Parse(k, p, Len(p.instructions), it))
    ELSE [p |-> evalKeep(p, it, TRUE), log |-> c.log \o c.err, panic |-> FALSE]

\* eval without the tests for a segment and a structure
evalKeywordAlways(p, k, it) == evalChecked(p, k, it, checkSyntaxFor(it, k))

\* What eval does to the keyword k once the item is not skipped and no macro
\* body is open (or k is a Macro keyword).
evalKeyword(p, k, it) ==
    IF Emit \in k.Type /\ p.seg = Nil /\ p.struc = Nil
    THEN [p |-> evalKeep(p, it, TRUE),
          log |-> ErrorListF(ESError, "code or data emission requires a segment: "
                                        \o itemString(it)),
          panic |-> FALSE]
    ELSE IF p.struc # Nil /\ k.Type \cap {CodeBlock, EmitCode} # {}
    THEN [p |-> evalKeep(p, it, TRUE),
          log |-> ErrorListF(ESError,
                    it.val \o " not allowed inside structure definition"),
          panic |-> FALSE]
    ELSE evalChecked(p, k, it, checkSyntaxFor(it, k))

evalExpanded(it, x) ==
    IF x.panic THEN [p |-> x.p, log |-> x.log, panic |-> TRUE]
    ELSE [p |-> evalKeep(x.p, it, x.ret), log |-> x.log \o x.err, panic |-> FALSE]

\* What eval does to an item that is no keyword: a macro is expanded.
evalSymbol(p, it, s) ==
    IF s.err = NoErr /\ s.val.k = "asmMacro"
    THEN evalExpanded(it, expandMacro(p, s.val, it))
    ELSE [p |-> evalKeep(p, it, TRUE), log |-> NoErr, panic |-> FALSE]

\* The zero Keyword that the lookup of a word outside the table yields.
NoKeyword == Keyword("", {}, Range(0, 0))

\* eval once the keyword is looked up: ok says that the item is a keyword.
evalTyped(p, it, ok, k) ==
    IF evalSkips(p, k.Type) THEN [p |-> p, log |-> NoErr, panic |-> FALSE]
    ELSE IF ~(Macro \in k.Type \/ p.macro.nest = 0)
    THEN [p |-> evalKeep(p, it, TRUE), log |-> NoErr, panic |-> FALSE]
    ELSE IF ok THEN evalKeyword(p, k, it)
    ELSE evalSymbol(p, it, getSym(p, it.val))

evalItem(p, it, insUpper) ==
    IF insUpper \in DOMAIN Keywords
    THEN evalTyped(p, [it EXCEPT !.val = insUpper], TRUE, Keywords[insUpper])
    ELSE evalTyped(p, it, FALSE, NoKeyword)

eval(p, it) == evalItem(evalInitSyms(p), it, ToUpper(it.val))

\* The number of segments that the prev links lead through from the pointer
\* ptr on until they end, -1 when they have not ended after fuel segments.
RECURSIVE PrevLinks(_, _, _)
PrevLinksMore(n) == IF n = -1 THEN -1 ELSE n + 1

PrevLinks(q, ptr, fuel) ==
    IF ptr = Nil THEN 0
    ELSE IF fuel = 0 THEN -1
    ELSE PrevLinksMore(PrevLinks(q, q.segs[ptr.name].prev, fuel - 1))

\* ErrorListOpen for a segment: the names of the blocks from ptr on, as far
\* as the prev links end.
RECURSIVE segOpenNames(_, _)
segOpenNames(p, ptr) ==
    IF ptr = Nil THEN ""
    ELSE " <- " \o p.segs[ptr.name].name \o segOpenNames(p, p.segs[ptr.name].prev)

ErrorListOpenSeg(p, block) ==
    ErrorListF(ESError,
               (IF p.segs[block.name].prev # Nil THEN "open segments: "
                ELSE "open segment: ")
                  \o p.segs[block.name].name
                  \o segOpenNames(p, p.segs[block.name].prev))

\* The lines that an error list prints.
RECURSIVE endLines(_)
endLines(err) == IF err = NoErr THEN <<>> ELSE <<err[1].s>> \o endLines(Tail(err))

\* parser.end's report of the open structures and segments
endOpen(p) ==
    AddL(IF p.struc # Nil THEN ErrorListOpen(p.struc) ELSE NoErr,
         IF p.segNest # 0 THEN ErrorListOpenSeg(p, p.seg) ELSE NoErr)

\* parser.end's report of the open procedure
endProc(p) ==
    IF p.proc.nest # 0
    THEN <<"ignoring procedure " \o p.proc.name \o " without an ENDP directive">>
    ELSE <<>>

\* parser.end: the lines it logs after the prefix (EOF), and the names of the
\* symbols that it lists after them, which come in the order of the names
\* with their values. ret tells how the call ends: ErrorListOpen calls a
\* method of the segment, which panics for a nil pointer, and follows the
\* prev links for as long as they are not nil, which is for ever when they
\* form a ring.
end(p) ==
    IF p.segNest # 0 /\ p.seg = Nil
    THEN [log |-> <<>>, symbols |-> {}, ret |-> "panic"]
    ELSE IF p.segNest # 0 /\ PrevLinks(p, p.seg, Cardinality(DOMAIN p.segs)) = -1
    THEN [log |-> <<>>, symbols |-> {}, ret |-> "never"]
    ELSE [log |-> endLines(endOpen(p)) \o endProc(p), symbols |-> DOMAIN p.syms,
          ret |-> "return"]

\* No asmSegment exists.
NoSegments == [name \in {} |-> Nil]

\* The parser as main makes it (parser{syntax: *syntax}): every other field
\* is zero.
NewParser(syntax) ==
    [instructions |-> <<>>, syntax |-> syntax, syms |-> NilSyms, symCase |-> FALSE,
     macroLocalCount |-> 0, proc |-> NestInfo("", 0, 0),
     macro |-> NestInfo("", 0, 0), struc |-> Nil, seg |-> Nil, segNest |-> 0,
     segs |-> NoSegments,
     ifNest |-> 0, ifMatch |-> 0, ifElse |-> FALSE]

(***************************************************************************)
(* Lexer (aoyud.go, lex_stream.go)                                         *)
(***************************************************************************)
\* Directives that can't be preceded by an identifier name.
instructions == {"CALL", "INVOKE", "OPTION"}

\* Directives that are preceded by an identifier name.
declarators ==
    {"DB", "DW", "DD", "DQ", "DT", "DP", "DF", "=", "EQU", "TEXTEQU", "LABEL",
     "MACRO", "TYPEDEF", "CATSTR", "SUBSTR", "INSTR", "SIZESTR", "PROC", "ENDP",
     "STRUC", "STRUCT", "UNION", "ENDS", "SEGMENT", "GROUP"}

\* keywordGroup.matches, for a group of upper-case words
matches(g, word) == Len(word) > 0 /\ ToUpper(word) \in g

nestLevelEnter(b) ==
    CASE b = "{" -> 1 [] b = "(" -> 2 [] b = "<" -> 4 [] b \in {"\"", "'"} -> 8
      [] OTHER -> 0

nestLevelLeave(b) ==
    CASE b = "}" -> 1 [] b = ")" -> 2 [] b = ">" -> 4 [] b \in {"\"", "'"} -> 8
      [] OTHER -> 0

\* nextParam's loop; quote = "" stands for the zero byte.
RECURSIVE nextParamLoop(_, _, _)
\* The nesting step with any quote leaving the quoted mode
nextParamNestAnyQuote(s, quote, level, b, ll) ==
    IF (IF quote # "" THEN b \in quotes ELSE BitAnd(level, ll) # 0)
    THEN nextParamLoop(s, "", level - BitAnd(level, ll))
    ELSE IF nestLevelEnter(b) > level
    THEN nextParamLoop(s, IF b \in quotes THEN b ELSE quote,
                       BitOr(level, nestLevelEnter(b)))
    ELSE nextParamLoop(s, quote, level)

\* The nesting step of nextParam's loop for the byte b consumed.
nextParamNest(s, quote, level, b, ll) ==
    IF (IF quote # "" THEN b = quote ELSE BitAnd(level, ll) # 0)
    THEN nextParamLoop(s, "", level - BitAnd(level, ll))
    ELSE IF nestLevelEnter(b) > level
    THEN nextParamLoop(s, IF b \in quotes THEN b ELSE quote,
                       BitOr(level, nestLevelEnter(b)))
    ELSE nextParamLoop(s, quote, level)

\* One round of the loop: b is the byte that next() consumes.
nextParamRead(s, quote, level, b) ==
    nextParamNest(IF level = 0 /\ b = "\\"
                  THEN ignore(nextUntil(next(s), linebreak).stream, linebreak)
                  ELSE next(s),
                  quote, level, b, nestLevelLeave(b))

nextParamLoop(s, quote, level) ==
    IF ~(level = 0 /\ peek(s) \in paramDelim) /\ peek(s) # eof
    THEN nextParamRead(s, quote, level, peek(s))
    ELSE s

\* nextParam's second loop, which gives back the trailing whitespace.
RECURSIVE nextParamTrim(_, _)
nextParamTrim(s, start) ==
    IF s.c > start /\ Char(s.input, s.c) \in whitespace
    THEN nextParamTrim([s EXCEPT !.c = s.c - 1], start)
    ELSE s

nextParamFrom(s0, s1) ==
    [ret |-> SubSeq(s0.input, s0.c + 1, s1.c), stream |-> s1]

nextParamAt(s0) == nextParamFrom(s0, nextParamTrim(nextParamLoop(s0, "", 0), s0.c))

\* nextParam: the parameter read and the stream after it.
nextParam(s) == nextParamAt(ignore(s, whitespace))

itemError == "itemError"

\* A lexer and its goroutine.  state is the state function that run calls
\* next ("nil": none, "done": run has returned); out holds, in order, what
\* the goroutine has yet to do before it calls the next state function: to
\* send an item on l.items, or to call lexINCLUDE for an item; relay says
\* that it is in lexINCLUDE's loop over the items of the lexer it created
\* and hold is the item it received there and has yet to send on.
newLexer(input) ==
    [stream |-> newLexStream(input),
     curInst |-> [typ |-> itemError, sym |-> "", val |-> "", params |-> <<>>],
     state |-> "lexFirst", out |-> <<>>, relay |-> FALSE, hold |-> Nil,
     closes |-> 0]

\* What newInstruction does with the cached instruction.
newInstructionOut(cur) ==
    IF ToUpper(cur.val) = "INCLUDE" /\ checkParamRange(cur, pReq(1)).ok
    THEN <<[op |-> "lexINCLUDE", it |-> cur]>>
    ELSE IF Len(cur.val) > 0 THEN <<[op |-> "send", it |-> cur]>>
    ELSE <<>>

newInstruction(l, sym, val) ==
    [l EXCEPT !.out = l.out \o newInstructionOut([l.curInst EXCEPT !.typ = itemInstruction]),
              !.curInst = [typ |-> itemInstruction, sym |-> sym, val |-> val,
                           params |-> <<>>]]

emitItemSend(l, it) ==
    IF Len(it.val) > 0 \/ Len(it.sym) > 0
    THEN [l EXCEPT !.out = Append(l.out, [op |-> "send", it |-> it])]
    ELSE l

emitItem(l, it) == emitItemSend(newInstruction(l, "", ""), it)

\* The lexer with another state function to call, and with another stream.
Goto(l, state) == [l EXCEPT !.state = state]
WithStream(l, s) == [l EXCEPT !.stream = s]

\* lexFirst's COMMENT branch; s is the stream after ignore(&whitespace).
lexFirstComment(l, s) ==
    Goto(WithStream(l, nextUntil(nextUntil(next(s), {peek(s)}).stream,
                                 linebreak).stream), "lexFirst")

lexFirstDeclare(l, first, r2) ==
    Goto(newInstruction(WithStream(l, r2.stream), first, r2.ret), "lexParam")

lexFirstOf(l, first, s) ==
    IF peek(s) = ":"
    THEN Goto(emitItem(WithStream(l, next(s)),
                       [typ |-> itemLabel, sym |-> first, val |-> "",
                        params |-> <<>>]), "lexFirst")
    ELSE IF peek(s) = "="
    THEN Goto(newInstruction(WithStream(l, next(s)), first, "="), "lexParam")
    ELSE IF ~matches(instructions, first)
            /\ matches(declarators, nextUntil(s, wordDelim).ret)
    THEN lexFirstDeclare(l, first, nextUntil(s, wordDelim))
    ELSE IF EqualFold(first, "comment")
    THEN lexFirstComment(l, ignore(s, whitespace))
    ELSE Goto(newInstruction(WithStream(l, s), "", first), "lexParam")

lexFirstAt(l, r) == lexFirstOf(l, r.ret, r.stream)

lexFirst(l) == lexFirstAt(l, nextUntil(l.stream, insDelim))

\* lexParam's switch; s is the stream after next(), b the byte it consumed.
lexParamNext(l, s, b) ==
    IF b \in {";", "\\"}
    THEN Goto(WithStream(l, nextUntil(s, linebreak).stream), "lexFirst")
    ELSE IF b \in {"\r", "\n"} THEN Goto(WithStream(l, s), "lexFirst")
    ELSE IF b = eof THEN Goto(WithStream(l, s), "nil")
    ELSE Goto(WithStream(l, s), "lexParam")

lexParamAt(l, r) ==
    lexParamNext(IF Len(r.ret) > 0
                 THEN [l EXCEPT !.curInst.params = Append(@, r.ret)]
                 ELSE l,
                 next(r.stream), peek(r.stream))

lexParam(l) == lexParamAt(l, nextParam(l.stream))

\* run that does not send the cached instruction once its loop has ended,
\* a fault that the property of C6 detects.
runEndSilent(l) == l

\* run once its loop has ended: the cached instruction is sent.
runEnd(l) == IF l.state = "nil" THEN newInstruction(l, "", "") ELSE l

\* One round of run's loop.
run(l) == runEnd(IF l.state = "lexFirst" THEN lexFirst(l) ELSE lexParam(l))

(***************************************************************************)
(* The parser as a state machine: main's loop hands the items to eval one  *)
(* by one.                                                                 *)
(***************************************************************************)
VARIABLES
    p,          \* the parser struct
    crashed,    \* the program ended with a run-time panic
    lastItem,   \* history: the item of the last call of eval (Nil: none yet)
    lastLog,    \* history: the error lists the last call of eval printed
    chain,      \* history: per open IF block, the branches activated so far
    scen,       \* history: how much of Scenario the input has been so far
    lexers,     \* the lexers whose goroutines run, each created by the one before
    driver,     \* main: the file it lexes, where it stands, and the steps
                \* that the goroutines have taken (a history)
    recv,       \* history: the items main has received
    seg,        \* the asmSegment that data is added to (Nil: none)
    struc,      \* the innermost open asmStruc, with the ones around it
                \* in prev (Nil: none)
    calc,       \* a function of the program at work: what it was called
                \* with and what it returned (Nil: none)
    hist        \* history: the blobs given to AddData and the error lists
                \* it returned

dataVars == <<seg, struc, calc, hist>>
parserVars == <<p, crashed, lastItem, lastLog, chain, scen, dataVars>>
vars == <<p, crashed, lastItem, lastLog, chain, scen, lexers, driver, recv,
          seg, struc, calc, hist>>

\* Bounds of the model.
MaxIfNest == 3
MaxMacroNest == 1
MaxProcNest == 1

WithinBounds(q) ==
    /\ q.ifNest <= MaxIfNest
    /\ q.macro.nest \in -1..MaxMacroNest
    /\ q.proc.nest <= MaxProcNest

\* The flags of the keyword of an item ({} for any other item).
TypeOf(it) ==
    IF ToUpper(it.val) \in DOMAIN Keywords THEN Keywords[ToUpper(it.val)].Type
    ELSE {}

IsIf(it) == ToUpper(it.val) \in IfNames
IsElseif(it) == ToUpper(it.val) \in ElseifNames \cup {"ELSE"}
IsEndif(it) == ToUpper(it.val) = "ENDIF"

\* The current branch is active.
Active(q) == q.ifMatch >= q.ifNest

\* The record of an IF block in chain: n counts the branches of the block
\* that were activated (up to 2), sealed says that its ELSE was seen, bad
\* that an ELSE or ELSEIF followed its ELSE.
ChainAfter(c, q, it, q1) ==
    IF q.macro.nest # 0 THEN c
    ELSE IF IsIf(it) /\ q1.ifNest = q.ifNest + 1
    THEN Append(c, [n |-> IF Active(q1) THEN 1 ELSE 0, sealed |-> FALSE,
                    bad |-> FALSE])
    ELSE IF IsElseif(it) /\ q.ifNest > 0 /\ Len(c) > 0
    THEN [c EXCEPT ![Len(c)] =
            [n |-> IF Active(q1) /\ ~Active(q) /\ c[Len(c)].n < 2
                   THEN c[Len(c)].n + 1 ELSE c[Len(c)].n,
             sealed |-> c[Len(c)].sealed \/ ToUpper(it.val) = "ELSE",
             bad |-> c[Len(c)].bad \/ c[Len(c)].sealed]]
    ELSE IF IsEndif(it) /\ q1.ifNest = q.ifNest - 1 /\ Len(c) > 0
    THEN SubSeq(c, 1, Len(c) - 1)
    ELSE c

\* The input of the specification's nested conditional example.
Scenario ==
    << item("", "IF", <<"1">>), item("", "IF", <<"0">>),
       item("X", "=", <<"1">>), item("", "ENDIF", <<>>),
       item("X", "=", <<"2">>), item("", "ENDIF", <<>>) >>

\* scen = k: the input so far is the first k items of Scenario; -1: the
\* input is not a prefix of Scenario.
ScenAfter(k, it) ==
    IF k >= 0 /\ k < Len(Scenario) /\ Scenario[k + 1] = it THEN k + 1 ELSE -1

ParserStart(syntax) ==
    /\ p = NewParser(syntax)
    /\ crashed = FALSE
    /\ lastItem = Nil
    /\ lastLog = NoErr
    /\ chain = <<>>
    /\ scen = 0
    /\ seg = Nil
    /\ struc = Nil
    /\ calc = Nil
    /\ hist = <<>>

\* main with a parser alone, which is handed items of any origin.
ParserInit(syntax) ==
    /\ ParserStart(syntax)
    /\ lexers = <<>>
    /\ driver = [file |-> "", state |-> "range", steps |-> 0]
    /\ recv = <<>>

\* The step that eval makes for the item it, r being what eval yields.
Evaluated(it, r) ==
    /\ p' = r.p
    /\ crashed' = r.panic
    /\ lastItem' = it
    /\ lastLog' = r.log
    /\ chain' = ChainAfter(chain, evalInitSyms(p), it, r.p)
    /\ scen' = ScenAfter(scen, it)
    /\ UNCHANGED dataVars

EvalOf(it, r) ==
    /\ ~crashed
    /\ WithinBounds(r.p)
    /\ Evaluated(it, r)
    /\ UNCHANGED <<lexers, driver, recv>>

\* One round of main's loop over the items, for an item it of any origin.
Eval(it) == EvalOf(it, eval(p, it))

\* The conditional directives with predicates of every kind: true, false,
\* and raising a diagnostic.
CondItems ==
    { item("", "IF", <<"1">>), item("", "IF", <<"0">>), item("", "IFE", <<"0">>),
      item("", "IF", <<"q">>), item("", "IFE", <<"q">>),
      item("", "IFDEF", <<"q">>), item("", "IFNDEF", <<"q">>),
      item("", "IFB", <<"<>">>), item("", "IFNB", <<"<>">>),
      item("", "IFB", <<"x">>), item("", "IFB", <<"<a> b">>),
      item("", "IFIDN", <<"<a>", "<a>">>), item("", "IFDIFI", <<"<a>", "<A>">>),
      item("", "ELSEIF", <<"1">>), item("", "ELSEIF", <<"0">>),
      item("", "ELSEIFB", <<"<>">>), item("", "ELSEIFNB", <<"x">>),
      item("", "ELSEIFDEF", <<"q">>), item("", "ELSEIFIDN", <<"<a>", "<b>">>),
      item("", "ELSE", <<>>), item("", "ENDIF", <<>>) }

InitCond == ParserInit("TASM")
NextCond == \E it \in CondItems : Eval(it)
SpecCond == InitCond /\ [][NextCond]_vars

\* IF, ELSEIF, ELSE and ENDIF with predicates that evaluate without error.
ChainItems ==
    { item("", "IF", <<"1">>), item("", "IF", <<"0">>),
      item("", "ELSEIF", <<"1">>), item("", "ELSEIF", <<"0">>),
      item("", "ELSE", <<>>), item("", "ENDIF", <<>>) }

InitChain == ParserInit("TASM")
NextChain == \E it \in ChainItems : Eval(it)
SpecChain == InitChain /\ [][NextChain]_vars

\* Conditionals around assignments, a macro and a procedure.
SkipItems ==
    { item("", "IF", <<"1">>), item("", "IF", <<"0">>), item("", "ENDIF", <<>>),
      item("X", "=", <<"1">>), item("X", "=", <<"2">>),
      item("m", "MACRO", <<>>), item("", "ENDM", <<>>),
      item("f", "PROC", <<>>), item("f", "ENDP", <<>>) }

MaxSkipNest == 2
MaxInstr == 2

InitSkip == ParserInit("TASM")
NextSkip ==
    \E it \in SkipItems :
        /\ Eval(it)
        /\ p'.ifNest <= MaxSkipNest
        /\ Len(p'.instructions) <= MaxInstr
SpecSkip == InitSkip /\ [][NextSkip]_vars

\* Assignments to one name in two spellings under both case policies.
SymItems ==
    { item("foo", "=", <<"1">>), item("Foo", "=", <<"2">>),
      item("FOO", "EQU", <<"3">>),
      item("", "OPTION", <<"CASEMAP:NONE">>), item("", "OPTION", <<"CASEMAP:ALL">>),
      item("", "IFDEF", <<"foo">>), item("", "ENDIF", <<>>) }

MaxSymNest == 1
MaxSymInstr == 3

InitSym == ParserInit("TASM")
NextSym ==
    \E it \in SymItems :
        /\ Eval(it)
        /\ p'.ifNest <= MaxSymNest
        /\ Len(p'.instructions) <= MaxSymInstr
SpecSym == InitSym /\ [][NextSym]_vars

\* Assignments X = a op1 b op2 c of expressions with two binary operators.
Operands == {"1", "2", "3", "5"}
Operators == {"+", "-", "*", "/"}
Expr(a, op1, b, op2, c) == a \o " " \o op1 \o " " \o b \o " " \o op2 \o " " \o c
ExprItem(a, op1, b, op2, c) == item("X", "=", <<Expr(a, op1, b, op2, c)>>)
ShuntItems ==
    { ExprItem(a, op1, b, op2, c) :
        a \in Operands, op1 \in Operators, b \in Operands, op2 \in Operators,
        c \in Operands }

\* The program evaluates one assignment.
InitShunt == ParserInit("TASM")
NextShunt == \E it \in ShuntItems : Len(p.instructions) = 0 /\ Eval(it)
SpecShunt == InitShunt /\ [][NextShunt]_vars

\* Assignments X = e, e being any sequence of at most MaxTokens tokens:
\* constants, parentheses, an operator that is unary or binary by its place
\* and one that divides.
ExprTokens == {"0", "1", "2", "(", ")", "+", "/"}
MaxTokens == 4

\* The token sequences of the given length.
RECURSIVE TokenSeqs(_)
TokenSeqs(n) ==
    IF n = 0 THEN {<<>>}
    ELSE {Append(ts, t) : ts \in TokenSeqs(n - 1), t \in ExprTokens}

\* The text of a token sequence: the tokens with spaces between them.
RECURSIVE TextOf(_)
TextOf(ts) ==
    IF Len(ts) = 0 THEN ""
    ELSE IF Len(ts) = 1 THEN ts[1]
    ELSE ts[1] \o " " \o TextOf(Tail(ts))

ExprSeqs == UNION {TokenSeqs(n) : n \in 1..MaxTokens}
TokenItem(ts) == item("X", "=", <<TextOf(ts)>>)

\* The program evaluates one assignment.
InitExpr == ParserInit("TASM")
NextExpr == \E ts \in ExprSeqs : Len(p.instructions) = 0 /\ Eval(TokenItem(ts))
SpecExpr == InitExpr /\ [][NextExpr]_vars

(***************************************************************************)
(* The program: main, the lexer of its file and the lexers of the files    *)
(* that INCLUDE names, each in its goroutine, joined by unbuffered         *)
(* channels                                                                *)
(***************************************************************************)
\* The files that readFirstFromPaths finds, by name.
Files ==
    [name \in {"m.asm", "i.inc", "j.inc", "e.asm", "t.asm", "n.asm", "r.asm"} |->
        CASE name = "m.asm" -> "a1\nINCLUDE i.inc\nl: a2 x, y ; c\nX = 1"
          [] name = "i.inc" -> "b1\ninclude j.inc\nb2\n"
          [] name = "j.inc" -> "c1 <p, q>\nlc:"
          [] name = "e.asm" -> "e1\nINCLUDE j.inc"
          [] name = "t.asm" -> "INCLUDE j.inc\nINCLUDE i.inc ; twice\nt1 = 2\n"
          [] name = "n.asm" -> "d1\nINCLUDE none.inc\nd2"
          [] name = "r.asm" -> "r1\nINCLUDE r.asm\nr2"]

\* The files main is given: files whose includes end, and one that
\* includes itself.
MainFiles == {"m.asm", "e.asm", "t.asm", "n.asm"}
CyclicFiles == {"r.asm"}

\* The most lexers that exist at a time.
MaxDepth == 3

\* lexFile for a file that exists: the lexer whose goroutine it starts.
lexFile(filename) == newLexer(Files[filename])

\* main is in its loop over l.items.
Running == driver.state = "range" /\ ~crashed

\* The goroutine of the lexer l is at a send on l.items.
HasItem(l) == l.hold # Nil \/ (l.out # <<>> /\ l.out[1].op = "send")
ItemOf(l) == IF l.hold # Nil THEN l.hold ELSE l.out[1].it
Sent(l) == IF l.hold # Nil THEN [l EXCEPT !.hold = Nil] ELSE [l EXCEPT !.out = Tail(@)]

\* The goroutine of the lexer l is at the call of lexINCLUDE.
AtInclude(l) == l.out # <<>> /\ l.out[1].op = "lexINCLUDE" /\ ~l.relay
IncludedBy(l) == l.out[1].it.params[1]

\* A goroutine has taken a step, after which main is in the given state.
Stepped(state) == driver' = [driver EXCEPT !.steps = @ + 1, !.state = state]

\* run calls the next state function of lexer i.
CanLexStep(i) ==
    /\ Running
    /\ i \in 1..Len(lexers)
    /\ lexers[i].state \in {"lexFirst", "lexParam"}
    /\ lexers[i].out = <<>>

LexStep(i) ==
    /\ CanLexStep(i)
    /\ lexers' = [lexers EXCEPT ![i] = run(@)]
    /\ Stepped("range")
    /\ UNCHANGED <<parserVars, recv>>

\* lexINCLUDE of lexer i calls lexFile, which starts the next lexer.
CanInclude(i) ==
    /\ Running
    /\ i \in 1..Len(lexers)
    /\ Len(lexers) < MaxDepth
    /\ AtInclude(lexers[i])
    /\ IncludedBy(lexers[i]) \in DOMAIN Files

Include(i) ==
    /\ CanInclude(i)
    /\ lexers' = Append([lexers EXCEPT ![i].relay = TRUE],
                        lexFile(IncludedBy(lexers[i])))
    /\ Stepped("range")
    /\ UNCHANGED <<parserVars, recv>>

\* lexFile does not find the file: log.Fatalf ends the program.
CanIncludeMissing(i) ==
    /\ Running
    /\ i \in 1..Len(lexers)
    /\ AtInclude(lexers[i])
    /\ IncludedBy(lexers[i]) \notin DOMAIN Files

IncludeMissing(i) ==
    /\ CanIncludeMissing(i)
    /\ Stepped("fatal")
    /\ UNCHANGED <<parserVars, lexers, recv>>

\* lexINCLUDE that receives an item and does not send it on, a fault that
\* the property of C5 detects.
PassLosing(i) ==
    /\ Running
    /\ i \in 2..Len(lexers)
    /\ HasItem(lexers[i])
    /\ lexers[i - 1].relay
    /\ lexers' = [lexers EXCEPT ![i] = Sent(@)]
    /\ Stepped("range")
    /\ UNCHANGED <<parserVars, recv>>

\* Lexer i sends an item that lexINCLUDE of lexer i - 1 receives.
CanPass(i) ==
    /\ Running
    /\ i \in 2..Len(lexers)
    /\ HasItem(lexers[i])
    /\ lexers[i - 1].relay
    /\ lexers[i - 1].hold = Nil

Pass(i) ==
    /\ CanPass(i)
    /\ lexers' = [lexers EXCEPT ![i] = Sent(@),
                                ![i - 1].hold = ItemOf(lexers[i])]
    /\ Stepped("range")
    /\ UNCHANGED <<parserVars, recv>>

\* The first lexer sends an item that main receives and evaluates.
CanRecv ==
    /\ Running
    /\ Len(lexers) >= 1
    /\ HasItem(lexers[1])

Recv ==
    /\ CanRecv
    /\ Evaluated(ItemOf(lexers[1]), eval(p, ItemOf(lexers[1])))
    /\ recv' = Append(recv, ItemOf(lexers[1]))
    /\ lexers' = [lexers EXCEPT ![1] = Sent(@)]
    /\ Stepped("range")

\* run of lexer i closes l.items and returns.
CanClose(i) ==
    /\ Running
    /\ i \in 1..Len(lexers)
    /\ lexers[i].state = "nil"
    /\ lexers[i].out = <<>>

Close(i) ==
    /\ CanClose(i)
    /\ lexers' = [lexers EXCEPT ![i].state = "done", ![i].closes = @ + 1]
    /\ Stepped("range")
    /\ UNCHANGED <<parserVars, recv>>

\* lexINCLUDE of lexer i finds the channel of lexer i + 1 closed and returns.
CanRelayEnd(i) ==
    /\ Running
    /\ i >= 1
    /\ i + 1 = Len(lexers)
    /\ lexers[i].relay
    /\ lexers[i].hold = Nil
    /\ lexers[i + 1].state = "done"

RelayEnd(i) ==
    /\ CanRelayEnd(i)
    /\ lexers' = [SubSeq(lexers, 1, i) EXCEPT ![i].relay = FALSE, ![i].out = Tail(@)]
    /\ Stepped("range")
    /\ UNCHANGED <<parserVars, recv>>

\* main finds the channel of the first lexer closed and leaves its loop.
CanMainEnd ==
    /\ Running
    /\ Len(lexers) >= 1
    /\ lexers[1].state = "done"

MainEnd ==
    /\ CanMainEnd
    /\ Stepped("done")
    /\ UNCHANGED <<parserVars, lexers, recv>>

\* main has called lexFile(file, ...) and made its parser.
InitFor(files) ==
    /\ ParserStart("TASM")
    /\ \E file \in files :
         /\ driver = [file |-> file, state |-> "range", steps |-> 0]
         /\ lexers = <<lexFile(file)>>
    /\ recv = <<>>

Next ==
    \/ \E i \in 1..MaxDepth : LexStep(i)
    \/ \E i \in 1..MaxDepth : Include(i)
    \/ \E i \in 1..MaxDepth : IncludeMissing(i)
    \/ \E i \in 1..MaxDepth : Pass(i)
    \/ \E i \in 1..MaxDepth : Close(i)
    \/ \E i \in 1..MaxDepth : RelayEnd(i)
    \/ Recv
    \/ MainEnd

Init == InitFor(MainFiles)
Spec == Init /\ [][Next]_vars

\* Some goroutine can run: a step of Next is possible.
CanStep ==
    \/ \E i \in 1..MaxDepth :
         \/ CanLexStep(i) \/ CanInclude(i) \/ CanIncludeMissing(i)
         \/ CanPass(i) \/ CanClose(i) \/ CanRelayEnd(i)
    \/ CanRecv
    \/ CanMainEnd

\* What every step of Next does when a goroutine can run: it counts.
Scheduled ==
    /\ CanStep
    /\ \E state \in {"range", "done", "fatal"} : Stepped(state)

\* The same program, for every file and with the scheduler of the Go
\* run-time, which runs a goroutine whenever one can run: a step is taken
\* as long as one is possible.
InitAny == InitFor(MainFiles \cup CyclicFiles)
FairSpec == InitAny /\ [][Next]_vars /\ WF_driver(Scheduled)

(***************************************************************************)
(* Functions and objects of the program on their own: a call is made with  *)
(* an input of a small set and returns.                                    *)
(***************************************************************************)
\* The parser and the lexers are not at work.
NoProgram ==
    /\ p = NewParser("TASM")
    /\ crashed = FALSE
    /\ lastItem = Nil
    /\ lastLog = NoErr
    /\ chain = <<>>
    /\ scen = 0
    /\ lexers = <<>>
    /\ driver = [file |-> "", state |-> "range", steps |-> 0]
    /\ recv = <<>>

progVars == <<p, crashed, lastItem, lastLog, chain, scen, lexers, driver, recv>>

\* A call of the function fn with the input in that has yet to return.
Call(fn, in) == [fn |-> fn, in |-> in, out |-> 0, done |-> FALSE]

\* The call calc returns out.
Returns(out) == calc' = [calc EXCEPT !.out = out, !.done = TRUE]

\* The int64 values around the powers of 256 and around zero, of either
\* sign: the bytes in front are f, then comes the byte h, the bytes behind
\* are t.
LimitBytes == {0, 1, 127, 128, 254, 255}
Int64Inputs ==
    { [i \in 1..8 |-> IF i < k THEN f ELSE IF i = k THEN h ELSE t] :
        k \in 1..8, f \in {0, 255}, h \in LimitBytes, t \in {0, 1, 254, 255} }

\* asmInt{n: n}.width() is called and returns.
InitWidth ==
    /\ NoProgram
    /\ seg = Nil /\ struc = Nil /\ hist = <<>>
    /\ \E n \in Int64Inputs : calc = Call("width", n)

Width ==
    /\ calc.fn = "width" /\ ~calc.done
    /\ Returns(asmIntWidth(calc.in))
    /\ UNCHANGED <<progVars, seg, struc, hist>>

SpecWidth == InitWidth /\ [][Width]_vars

\* Byte strings: every string of at most MaxFree bytes out of a zero byte,
\* a letter and the highest byte, and strings of up to 9 bytes with one of
\* these in front of equal bytes.
MaxFree == 4
FreeBytes == {0, 65, 255}

RECURSIVE ByteSeqs(_)
ByteSeqs(n) ==
    IF n = 0 THEN {<<>>}
    ELSE {Append(s, b) : s \in ByteSeqs(n - 1), b \in FreeBytes}

StringInputs ==
    UNION {ByteSeqs(n) : n \in 0..MaxFree}
        \cup { [i \in 1..n |-> IF i = 1 THEN h ELSE t] :
                 n \in 5..9, h \in FreeBytes, t \in {0, 66, 128} }

\* asmString(s).toInt() is called and returns; formatASCII() is called for
\* the integer it returned.
InitString ==
    /\ NoProgram
    /\ seg = Nil /\ struc = Nil /\ hist = <<>>
    /\ \E s \in StringInputs : calc = Call("toInt", s)

ToInt ==
    /\ calc.fn = "toInt" /\ ~calc.done
    /\ Returns(toInt(calc.in))
    /\ hist' = <<calc.in>>
    /\ UNCHANGED <<progVars, seg, struc>>

FormatASCII ==
    /\ calc.fn = "toInt" /\ calc.done /\ calc.out.err = NoErr
    /\ calc' = [fn |-> "formatASCII", in |-> calc.out.val,
                out |-> formatASCII(calc.out.val.n), done |-> TRUE]
    /\ UNCHANGED <<progVars, seg, struc, hist>>

NextString == ToInt \/ FormatASCII
SpecString == InitString /\ [][NextString]_vars

\* A 16-bit segment takes blobs: none, small ones, and ones of about the
\* size of the segment, of zero bytes and of others.
MaxCalls == 4
MaxChunks == 2
SegBlobs ==
    {Emittable(<<0>>, n) : n \in {0, 1, 65534, 65535}}
        \cup {Emittable(<<1, 2>>, n) : n \in {1, 32767}}

InitSeg ==
    /\ NoProgram
    /\ seg = asmSegment("S", 2)
    /\ struc = Nil /\ calc = Nil /\ hist = <<>>

\* seg.AddData(blob) is called; hist keeps the blob and what the call
\* returned.
SegAddData ==
    \E blob \in SegBlobs :
        /\ seg # Nil /\ Len(hist) < MaxCalls
        /\ seg' = segAddData(seg, blob).s
        /\ hist' = Append(hist, [blob |-> blob,
                                 err |-> segAddData(seg, blob).err])
        /\ UNCHANGED <<progVars, struc, calc>>

\* An instruction that is no data declaration ends the chunk (data.go,
\* the comment at its top): the data after it goes to a new chunk.
SegNewChunk ==
    /\ seg # Nil /\ Len(seg.chunks) \in 1..(MaxChunks - 1)
    /\ seg' = [seg EXCEPT !.chunks = Append(@, <<>>)]
    /\ UNCHANGED <<progVars, struc, calc, hist>>

NextSeg == SegAddData \/ SegNewChunk
SpecSeg == InitSeg /\ [][NextSeg]_vars

\* A structure or union takes the blobs of its members, string literals of
\* up to two bytes; a structure or union may be opened inside the outermost
\* one.
MaxMembers == 3
StrucBlobs ==
    {Emittable(s, 1) : s \in {<<>>, <<0>>, <<1>>, <<0, 2>>}}

InitStruc ==
    /\ NoProgram
    /\ \E flag \in {sUnion, sStruc} : struc = asmStruc("U", flag, Nil)
    /\ seg = Nil /\ calc = Nil /\ hist = <<>>

\* struc.AddData(blob) is called; hist keeps the blobs given to the
\* innermost structure and what the calls returned.
StrucAddData ==
    \E blob \in StrucBlobs :
        /\ struc # Nil /\ Len(hist) < MaxMembers
        /\ struc' = strucAddData(struc, blob).v
        /\ hist' = Append(hist, [blob |-> blob,
                                 err |-> strucAddData(struc, blob).err])
        /\ UNCHANGED <<progVars, seg, calc>>

\* STRUC or UNION inside the outermost structure
StrucOpen ==
    \E flag \in {sUnion, sStruc} :
        /\ struc # Nil /\ struc.prev = Nil
        /\ struc' = asmStruc("", flag, struc)
        /\ hist' = <<>>
        /\ UNCHANGED <<progVars, seg, calc>>

NextStruc == StrucAddData \/ StrucOpen
SpecStruc == InitStruc /\ [][NextStruc]_vars

\* The lexer of one text on its own, run calling one state function after
\* the other; nothing receives its items, which stay in out.  The texts are
\* all those of at most MaxInput bytes out of a letter, the delimiters and
\* the zero byte, and some longer lines.
MaxInput == 4
InputBytes == {"a", " ", ",", ";", ":", "(", "\n", eof}

RECURSIVE Texts(_)
Texts(n) ==
    IF n = 0 THEN {""}
    ELSE {t \o b : t \in Texts(n - 1), b \in InputBytes}

LongerTexts ==
    {"x = 1 \t, 2 \n", "s DB 'a , b' ; c\nd", "a \\ b\n c , d",
     "comment ~ a\nb ~ c\nd e", "m <a , b> , \"c ; d\" \r\ne"}

LexInputs == UNION {Texts(n) : n \in 0..MaxInput} \cup LongerTexts

InitLex ==
    /\ NoProgram
    /\ seg = Nil /\ struc = Nil /\ hist = <<>>
    /\ \E input \in LexInputs :
          calc = [fn |-> "run", in |-> input, out |-> newLexer(input),
                  done |-> FALSE]

\* One round of run's loop; run returns when the state function is nil.
LexRound ==
    /\ calc.fn = "run" /\ ~calc.done
    /\ calc' = [calc EXCEPT !.out = run(calc.out),
                            !.done = (run(calc.out).state = "nil")]
    /\ UNCHANGED <<progVars, seg, struc, hist>>

SpecLex == InitLex /\ [][LexRound]_vars

\* nextParam on a stream at the start of a text: every text of at most
\* MaxParam bytes out of a letter, whitespace, the delimiters, the
\* backslash and nesting bytes of each class.
MaxParam == 4
ParamBytes == {"a", " ", ",", "\n", "\\", "(", ")", "\"", "'"}

RECURSIVE ParamTexts(_)
ParamTexts(n) ==
    IF n = 0 THEN {""}
    ELSE {t \o b : t \in ParamTexts(n - 1), b \in ParamBytes}

ParamInputs ==
    UNION {ParamTexts(n) : n \in 0..MaxParam}
        \cup {"{a, b} \t; c", "x {(a}, b), c", "<a 'b>, c' d>\t \r\n"}

InitParam ==
    /\ NoProgram
    /\ seg = Nil /\ struc = Nil /\ hist = <<>>
    /\ \E input \in ParamInputs : calc = Call("nextParam", input)

NextParam ==
    /\ calc.fn = "nextParam" /\ ~calc.done
    /\ Returns(nextParam(newLexStream(calc.in)))
    /\ UNCHANGED <<progVars, seg, struc, hist>>

SpecParam == InitParam /\ [][NextParam]_vars

\* expandMacro for a macro M of up to MaxBody lines, with and without an
\* argument and locals, called with and without a parameter: the macro is
\* defined by evaluating its text in a new parser, whose counter of locals
\* then stands at a small number or at the last one of four hex digits.
MaxBody == 2
MacroLines ==
    {item("L", "=", <<"1">>), item("", "JMP", <<"L">>),
     item("K", "EQU", <<"<L&K , l>">>), item("", "MOV", <<"ax", "[A + L]">>),
     [item("L", "", <<>>) EXCEPT !.typ = itemLabel]}

RECURSIVE MacroBodies(_)
MacroBodies(n) ==
    IF n = 0 THEN {<<>>}
    ELSE {<<>>} \cup {Append(b, l) : b \in MacroBodies(n - 1), l \in MacroLines}

MacroText(args, locals, body) ==
    <<item("M", "MACRO", args)>>
        \o (IF locals = <<>> THEN <<>> ELSE <<item("", "LOCAL", locals)>>)
        \o body \o <<item("", "ENDM", <<>>)>>

\* The parser after eval of the items from the i-th on, as far as the
\* program runs.
RECURSIVE evalAll(_, _, _)
evalAllNext(r, items, i) ==
    IF r.panic THEN r.p ELSE evalAll(r.p, items, i + 1)
evalAll(q, items, i) ==
    IF i > Len(items) THEN q ELSE evalAllNext(eval(q, items[i]), items, i)

MacroInputs ==
    { [p |-> [evalAll(NewParser("TASM"), MacroText(args, locals, body), 1)
                EXCEPT !.macroLocalCount = count],
       it |-> item("", "M", params)] :
        args \in {<<>>, <<"A">>}, locals \in {<<>>, <<"L">>, <<"L", "K">>},
        body \in MacroBodies(MaxBody), count \in {0, 65535},
        params \in {<<>>, <<"5">>} }

InitMacro ==
    /\ NoProgram
    /\ seg = Nil /\ struc = Nil /\ hist = <<>>
    /\ \E in \in MacroInputs : calc = Call("expandMacro", in)

\* p.expandMacro(m, it) for the macro m that the symbol M names.
ExpandMacro ==
    /\ calc.fn = "expandMacro" /\ hist = <<>>
    /\ hist' = <<expandMacro(calc.in.p, getSym(calc.in.p, "M").val, calc.in.it)>>
    /\ UNCHANGED <<progVars, seg, struc, calc>>

\* The same call once more, the parser being as before but for the counter
\* of locals, which stands where the first call left it.
ExpandMacroAgain ==
    /\ calc.fn = "expandMacro" /\ Len(hist) = 1
    /\ hist' = Append(hist,
          expandMacro([calc.in.p EXCEPT
                          !.macroLocalCount = hist[1].p.macroLocalCount],
                      getSym(calc.in.p, "M").val, calc.in.it))
    /\ calc' = [calc EXCEPT !.done = TRUE]
    /\ UNCHANGED <<progVars, seg, struc>>

NextMacro == ExpandMacro \/ ExpandMacroAgain
SpecMacro == InitMacro /\ [][NextMacro]_vars

\* expandMacro for a macro M of one or two arguments, each without a type,
\* required or with a default, whose body of one line names the arguments:
\* the call has no parameter, empty ones, plain ones or text literals.
BindArgs ==
    {[name |-> n, typ |-> t.typ, def |-> t.def] :
        n \in {"A"},
        t \in {[typ |-> "", def |-> ""], [typ |-> "REQ", def |-> ""],
               [typ |-> "=<9>", def |-> "9"]}}

BindHeader(a) == IF a.typ = "" THEN a.name ELSE a.name \o ":" \o a.typ

BindHeaders ==
    {<<a>> : a \in BindArgs}
        \cup {<<a, [b EXCEPT !.name = "B"]>> : a \in BindArgs, b \in BindArgs}

BindParams ==
    {<<>>, <<"3">>, <<"">>, <<"3", "4">>, <<"", "4">>, <<"<5>">>,
     <<"3", "<>">>, <<"3", "4", "6">>}

BindBody == <<item("", "DB", <<"A", "B">>)>>

BindInputs ==
    { [p |-> evalAll(NewParser("TASM"),
                     MacroText([i \in 1..Len(h) |-> BindHeader(h[i])], <<>>,
                               BindBody), 1),
       it |-> item("", "M", params),
       args |-> h] :
        h \in BindHeaders, params \in BindParams }

InitBind ==
    /\ NoProgram
    /\ seg = Nil /\ struc = Nil /\ hist = <<>>
    /\ \E in \in BindInputs : calc = Call("expandMacro", in)

NextBind == ExpandMacro
SpecBind == InitBind /\ [][NextBind]_vars

\* main with a parser alone that is handed the directives of macro
\* definitions: headers with a REST or VARARG argument in the last place and
\* before it, a MACRO without a name, blocks of IRP, LOCAL directives and an
\* assignment for the bodies, and ENDM, in any order.
DefItems ==
    { item("M", "MACRO", <<"A", "B:REST">>), item("M", "MACRO", <<"a:rest", "B">>),
      item("M", "MACRO", <<"A:VARARG", "B">>), item("", "MACRO", <<>>),
      item("", "IRP", <<"X", "<1>">>), item("", "LOCAL", <<"L">>),
      item("X", "=", <<"1">>), item("", "ENDM", <<>>) }

MaxDefInstr == 4
MaxDefNest == 2

DefBounds(q) == Len(q.instructions) <= MaxDefInstr /\ q.macro.nest <= MaxDefNest

EvalDefOf(it, r) ==
    /\ ~crashed
    /\ DefBounds(r.p)
    /\ Evaluated(it, r)
    /\ UNCHANGED <<lexers, driver, recv>>

EvalDef(it) == EvalDefOf(it, eval(p, it))

InitDef == ParserInit("TASM")
NextDef == \E it \in DefItems : EvalDef(it)
SpecDef == InitDef /\ [][NextDef]_vars

\* main with a parser alone that is handed CPU directives and the SEGMENT
\* and ENDS of two segments, with and without a USE attribute.
WordsizeItems ==
    { item("", ".8086", <<>>), item("", ".386", <<>>), item("", ".X64", <<>>),
      item("A", "SEGMENT", <<>>), item("A", "SEGMENT", <<"USE32">>),
      item("A", "SEGMENT", <<"PARA use64 'CODE'">>),
      item("B", "SEGMENT", <<"USE32 USE16">>), item("B", "SEGMENT", <<"USE64">>),
      item("A", "ENDS", <<>>) }

MaxWordsizeInstr == 4

InitWordsize == ParserInit("TASM")
NextWordsize ==
    \E it \in WordsizeItems :
        /\ Eval(it)
        /\ Len(p'.instructions) <= MaxWordsizeInstr
SpecWordsize == InitWordsize /\ [][NextWordsize]_vars

\* The operators whose functions are symmetric in their operands, applied
\* to operands of any base at the limits of int64 and around the powers of
\* 256: x OP y and y OP x are calculated.
CommutativeIds == {"+", "*", "AND", "OR", "XOR", "EQ", "NE"}

OperandBytes == {0, 1, 127, 128, 255}
Operands64 ==
    { [i \in 1..8 |-> IF i < k THEN f ELSE IF i = k THEN h ELSE t] :
        k \in {1, 5, 8}, f \in {0, 255}, h \in OperandBytes, t \in {0, 255} }

InitCommute ==
    /\ NoProgram
    /\ seg = Nil /\ struc = Nil /\ hist = <<>>
    /\ \E id \in CommutativeIds, x \in Operands64, y \in Operands64 :
          calc = Call("Calc", [id |-> id, x |-> asmInt(x, 0, 16),
                               y |-> asmInt(y, 0, 10)])

CalcBothWays ==
    /\ calc.fn = "Calc" /\ ~calc.done
    /\ Returns([xy |-> Calc64(calc.in.id, calc.in.x, calc.in.y),
                yx |-> Calc64(calc.in.id, calc.in.y, calc.in.x)])
    /\ UNCHANGED <<progVars, seg, struc, hist>>

SpecCommute == InitCommute /\ [][CalcBothWays]_vars

\* main with a parser alone that is handed the SEGMENT and ENDS of two
\* segments and the directives of structures and unions with and without a
\* name, one of them with the name of a segment, in any order.
NestItems ==
    { item("A", "SEGMENT", <<>>), item("B", "SEGMENT", <<>>),
      item("A", "ENDS", <<>>), item("B", "ENDS", <<>>),
      item("S", "STRUC", <<>>), item("A", "STRUC", <<>>),
      item("", "UNION", <<>>), item("", "STRUC", <<"T">>),
      item("S", "ENDS", <<>>), item("", "ENDS", <<>>) }

MaxNestInstr == 4

InitNest == ParserInit("TASM")
NextNest ==
    \E it \in NestItems :
        /\ Eval(it)
        /\ Len(p'.instructions) <= MaxNestInstr
SpecNest == InitNest /\ [][NextNest]_vars

\* expandMacro's replace for a macro with the argument A bound to 1, on
\* every text of up to MaxText bytes out of the argument's name, a letter
\* that is no argument, the ampersand and the space.
MaxText == 4
ReplaceBytes == {"A", "x", "&", " "}

RECURSIVE ReplaceTexts(_)
ReplaceTexts(n) ==
    IF n = 0 THEN {""}
    ELSE {t \o b : t \in ReplaceTexts(n - 1), b \in ReplaceBytes}

ReplaceInputs == UNION {ReplaceTexts(n) : n \in 0..MaxText}

BoundA == "A" :> "1"

InitReplace ==
    /\ NoProgram
    /\ seg = Nil /\ struc = Nil /\ hist = <<>>
    /\ \E s \in ReplaceInputs : calc = Call("replace", s)

Replace ==
    /\ calc.fn = "replace" /\ ~calc.done
    /\ Returns(replace(NewParser("TASM"), BoundA, calc.in))
    /\ UNCHANGED <<progVars, seg, struc, hist>>

SpecReplace == InitReplace /\ [][Replace]_vars

\* main with a parser alone that is handed directives of CPUs and FPUs, the
\* = and EQU directives that name @CPU and @WORDSIZE, and a segment.
PredefItems ==
    { item("", ".386", <<>>), item("", ".387", <<>>),
      item("@CPU", "=", <<"5">>), item("@CPU", "EQU", <<"<x>">>),
      item("@WORDSIZE", "=", <<"8">>), item("@wordsize", "EQU", <<"4">>),
      item("A", "SEGMENT", <<>>), item("A", "ENDS", <<>>) }

MaxPredefInstr == 4

InitPredef == ParserInit("TASM")
NextPredef ==
    \E it \in PredefItems :
        /\ Eval(it)
        /\ Len(p'.instructions) <= MaxPredefInstr
SpecPredef == InitPredef /\ [][NextPredef]_vars

\* shuntOp.Calc of the unary operators on a stack that holds one integer of
\* up to MaxOperand in size, of any base.
MaxOperand == 8
UnaryIds == {"+", "-", "NOT"}
OperandBases == {2, 10, 16}

InitUnary ==
    /\ NoProgram
    /\ seg = Nil /\ struc = Nil /\ hist = <<>>
    /\ \E id \in UnaryIds, n \in (0 - MaxOperand)..MaxOperand, base \in OperandBases :
          calc = Call("CalcOp", [id |-> id, x |-> asmInt(n, 0, base)])

CalcUnary ==
    /\ calc.fn = "CalcOp" /\ ~calc.done
    /\ Returns(CalcOp(unaryOperators[calc.in.id], <<calc.in.x>>))
    /\ UNCHANGED <<progVars, seg, struc, hist>>

SpecUnary == InitUnary /\ [][CalcUnary]_vars

\* expandMacro for a macro M whose last argument is REST or VARARG, behind
\* none, one or two other arguments, whose body of one line names it: the
\* call has up to MaxRestParams parameters, some of them empty.
MaxRestParams == 3

RestHeaders ==
    {<<"B:REST">>, <<"A", "B:REST">>, <<"A", "B:VARARG">>, <<"A", "C", "B:REST">>}

RECURSIVE RestParams(_)
RestParams(n) ==
    IF n = 0 THEN {<<>>}
    ELSE {Append(ps, x) : ps \in RestParams(n - 1), x \in {"3", "4", ""}}

RestBody == <<item("", "DB", <<"B">>)>>

RestInputs ==
    { [p |-> evalAll(NewParser("TASM"), MacroText(h, <<>>, RestBody), 1),
       it |-> item("", "M", params),
       rest |-> Len(h) - 1] :
        h \in RestHeaders, params \in UNION {RestParams(n) : n \in 0..MaxRestParams} }

InitRest ==
    /\ NoProgram
    /\ seg = Nil /\ struc = Nil /\ hist = <<>>
    /\ \E in \in RestInputs : calc = Call("expandMacro", in)

NextRest == ExpandMacro
SpecRest == InitRest /\ [][NextRest]_vars

\* main with a parser alone that is handed the directives of the CPUs and
\* FPUs, with and without a suffix, in any order.
CPUItems == {item("", name, <<>>) : name \in CPUNames}

MaxCPUInstr == 2

InitCPU == ParserInit("TASM")
NextCPU ==
    \E it \in CPUItems :
        /\ Eval(it)
        /\ Len(p'.instructions) <= MaxCPUInstr
SpecCPU == InitCPU /\ [][NextCPU]_vars

\* eval of an item whose keyword has flags of any composition and one of
\* three parse functions, in a parser that has a segment open or none and a
\* structure open or none.
EmitFlags == SUBSET {Declarator, CodeBlock, Emit, EmitCode}

EmitItems ==
    {[it |-> item("V", "DB", <<"1">>), Parse |-> "DATA"],
     [it |-> item("V", "=", <<"1">>), Parse |-> "EQUALS"],
     [it |-> item("V", "PROC", <<>>), Parse |-> "PROC"]}

EmitPrefixes ==
    {<<>>, <<item("A", "SEGMENT", <<>>)>>, <<item("S", "STRUC", <<>>)>>,
     <<item("A", "SEGMENT", <<>>), item("S", "STRUC", <<>>)>>}

EmitInputs ==
    { [p |-> evalAll(NewParser("TASM"), <<item("", ".8086", <<>>)>> \o pre, 1),
       it |-> e.it,
       k |-> Keyword(e.Parse, type, Range(0, -1))] :
        pre \in EmitPrefixes, e \in EmitItems, type \in EmitFlags }

InitEmit ==
    /\ NoProgram
    /\ seg = Nil /\ struc = Nil /\ hist = <<>>
    /\ \E in \in EmitInputs : calc = Call("eval", in)

\* p.eval(it) from the place where the keyword of the item is looked up.
EvalKeyword ==
    /\ calc.fn = "eval" /\ ~calc.done
    /\ Returns(evalTyped(calc.in.p, calc.in.it, TRUE, calc.in.k))
    /\ UNCHANGED <<progVars, seg, struc, hist>>

SpecEmit == InitEmit /\ [][EvalKeyword]_vars

\* EmitPointer in the first and the second pass, under either syntax, with
\* a symbol or none, for a segment without data, with one chunk and with
\* two, for a structure and a union with and without members, for a
\* structure inside a segment and for one nested in another.
PointerSegment(q, chunks) == [q EXCEPT !.segs["A"].chunks = chunks]
PointerStruc(q, blob) == [q EXCEPT !.struc = strucAddData(@, blob).v]

PointerOpened(syntax, items) == evalAll(NewParser(syntax), items, 1)

PointerParsers(syntax) ==
    { PointerOpened(syntax, <<item("A", "SEGMENT", <<>>)>>),
      PointerSegment(PointerOpened(syntax, <<item("A", "SEGMENT", <<>>)>>),
                     <<BlobListAppend(<<>>, Emittable(<<1>>, 2))>>),
      PointerSegment(PointerOpened(syntax, <<item("A", "SEGMENT", <<>>)>>),
                     <<BlobListAppend(<<>>, Emittable(<<1>>, 2)),
                       BlobListAppend(<<>>, Emittable(<<7>>, 1))>>),
      PointerOpened(syntax, <<item("S", "STRUC", <<>>)>>),
      PointerStruc(PointerOpened(syntax, <<item("S", "STRUC", <<>>)>>),
                   Emittable(<<1>>, 3)),
      PointerStruc(PointerOpened(syntax, <<item("S", "UNION", <<>>)>>),
                   Emittable(<<0>>, 2)),
      PointerStruc(PointerSegment(
                     PointerOpened(syntax, <<item("A", "SEGMENT", <<>>),
                                             item("S", "STRUC", <<>>)>>),
                     <<BlobListAppend(<<>>, Emittable(<<1>>, 2))>>),
                   Emittable(<<1>>, 1)),
      PointerStruc(PointerOpened(syntax, <<item("S", "STRUC", <<>>),
                                           item("", "STRUC", <<>>)>>),
                   Emittable(<<1>>, 1)) }

PointerInputs ==
    { [p |-> ("pass2" :> pass2) @@ q, sym |-> sym, width |-> width] :
        q \in PointerParsers("TASM") \cup PointerParsers("MASM"),
        pass2 \in BOOLEAN, sym \in {"", "v", "W"}, width \in {1, 2} }

InitPointer ==
    /\ NoProgram
    /\ seg = Nil /\ struc = Nil /\ hist = <<>>
    /\ \E in \in PointerInputs : calc = Call("EmitPointer", in)

CallEmitPointer ==
    /\ calc.fn = "EmitPointer" /\ ~calc.done
    /\ Returns(EmitPointer(calc.in.p, calc.in.sym, calc.in.width))
    /\ UNCHANGED <<progVars, seg, struc, hist>>

SpecPointer == InitPointer /\ [][CallEmitPointer]_vars

\* main with a parser alone in which three macros are defined: M with a
\* required argument and two locals, N with one local and a call of M in its
\* body, and O with one local and a call of M without its argument. Every
\* macro names its locals once, as the operands of a jump. The macros are
\* then called in any order, M with and without its argument.
LocalsText ==
    MacroText(<<"A:REQ">>, <<"L", "K">>, <<item("", "JMP", <<"L", "K">>)>>)
        \o <<item("N", "MACRO", <<>>), item("", "LOCAL", <<"L">>),
             item("", "JMP", <<"L">>), item("", "M", <<"1">>),
             item("", "ENDM", <<>>)>>
        \o <<item("O", "MACRO", <<>>), item("", "LOCAL", <<"L">>),
             item("", "JMP", <<"L">>), item("", "M", <<>>),
             item("", "ENDM", <<>>)>>
LocalsDefined == evalAll(NewParser("TASM"), LocalsText, 1)
LocalsItems ==
    { item("", "M", <<>>), item("", "M", <<"5">>), item("", "N", <<>>),
      item("", "O", <<>>) }

\* The instructions of the run, the 15 lines of the macros among them.
MaxLocalsInstr == 21

InitLocals ==
    /\ p = LocalsDefined
    /\ crashed = FALSE /\ lastItem = Nil /\ lastLog = NoErr
    /\ chain = <<>> /\ scen = 0
    /\ seg = Nil /\ struc = Nil /\ calc = Nil /\ hist = <<>>
    /\ lexers = <<>>
    /\ driver = [file |-> "", state |-> "range", steps |-> 0]
    /\ recv = <<>>
NextLocals ==
    \E it \in LocalsItems :
        /\ Eval(it)
        /\ Len(p'.instructions) <= MaxLocalsInstr
SpecLocals == InitLocals /\ [][NextLocals]_vars

\* main with a parser alone that is handed the directives that open and
\* close procedures, macros, structures, unions and segments, in any order,
\* and that calls parser.end when the items are over.
EndItems ==
    { item("P", "PROC", <<>>), item("P", "ENDP", <<>>),
      item("M", "MACRO", <<>>), item("", "ENDM", <<>>),
      item("S", "STRUC", <<>>), item("", "UNION", <<>>),
      item("A", "SEGMENT", <<>>), item("B", "SEGMENT", <<>>),
      item("B", "ENDS", <<>>) }

MaxEndInstr == 4

InitEnd == ParserInit("TASM")

EvalEnd ==
    \E it \in EndItems :
        /\ Running
        /\ Eval(it)
        /\ Len(p'.instructions) <= MaxEndInstr

\* main leaves its loop over the items and calls p.end(), whose outcome calc
\* keeps.
End ==
    /\ Running
    /\ calc' = [Call("end", p) EXCEPT !.out = end(p),
                                      !.done = (end(p).ret = "return")]
    /\ crashed' = (end(p).ret = "panic")
    /\ Stepped(IF end(p).ret = "return" THEN "done" ELSE "end")
    /\ UNCHANGED <<p, lastItem, lastLog, chain, scen, lexers, recv, seg, struc, hist>>

NextEnd == EvalEnd \/ End
SpecEnd == InitEnd /\ [][NextEnd]_vars

\* nextParam on a stream at the start of a text of parentheses and angle
\* brackets: every text of at most MaxBrackets bytes out of a letter, the
\* comma and the brackets of two classes, and the parameters ((a),b),c.
MaxBrackets == 5
BracketBytes == {"a", ",", "(", ")", "<", ">"}

RECURSIVE BracketTexts(_)
BracketTexts(n) ==
    IF n = 0 THEN {""}
    ELSE {t \o b : t \in BracketTexts(n - 1), b \in BracketBytes}

BracketInputs ==
    UNION {BracketTexts(n) : n \in 0..MaxBrackets} \cup {"((a),b),c"}

InitBrackets ==
    /\ NoProgram
    /\ seg = Nil /\ struc = Nil /\ hist = <<>>
    /\ \E input \in BracketInputs : calc = Call("nextParam", input)

SpecBrackets == InitBrackets /\ [][NextParam]_vars

(***************************************************************************)
(* Properties of the conditional counters                                  *)
(***************************************************************************)
\* The item of the last call of eval is the directive name.
LastIs(x, name) == x # Nil /\ ToUpper(x.val) = name

\* C1 (as amended): in every reachable state 0 <= ifMatch <= ifNest; an ENDIF
\* that has an open IF block (ifNest > 0) decrements both counters by one
\* when ifMatch = ifNest and only ifNest when ifMatch < ifNest; an ENDIF
\* without an open IF block (ifNest = 0) changes neither counter.
C1_EndifCounters ==
    /\ [](0 <= p.ifMatch /\ p.ifMatch <= p.ifNest)
    /\ [][LastIs(lastItem', "ENDIF") =>
            IF p.ifNest = 0
            THEN p'.ifNest = 0 /\ p'.ifMatch = p.ifMatch
            ELSE IF p.ifMatch = p.ifNest
            THEN p'.ifNest = p.ifNest - 1 /\ p'.ifMatch = p.ifMatch - 1
            ELSE p'.ifNest = p.ifNest - 1 /\ p'.ifMatch = p.ifMatch]_vars

\* C1, reached: an ENDIF closed an untaken block inside an untaken block,
\* which took ifNest from 2 to 1 and left ifMatch at 0.
C1_Witness ==
    /\ LastIs(lastItem, "ENDIF")
    /\ lastLog = NoErr
    /\ p.ifNest = 1
    /\ p.ifMatch = 0

\* C1 as stated: every ENDIF processed when ifMatch = ifNest decrements both
\* counters.  The ENDIF without an open IF block (ifMatch = ifNest = 0)
\* refutes it.
C1_AsStated ==
    [][LastIs(lastItem', "ENDIF") =>
         IF p.ifMatch = p.ifNest
         THEN p'.ifNest = p.ifNest - 1 /\ p'.ifMatch = p.ifMatch - 1
         ELSE p'.ifNest = p.ifNest - 1 /\ p'.ifMatch = p.ifMatch]_vars

\* C2 as stated: no IF block has more than one of its branches activated
\* (blocks in which an ELSE or ELSEIF follows the ELSE are left aside).  The
\* input IF 1, IF 0, ENDIF, ELSEIF 0, ELSE refutes it.
C2_OneBranchPerChain ==
    \A i \in 1..Len(chain) : chain[i].bad \/ chain[i].n <= 1

(***************************************************************************)
(* Properties of eval                                                      *)
(***************************************************************************)
\* The symbol X holds the integer n.
XIs(n) ==
    /\ "X" \in DOMAIN p.syms
    /\ p.syms["X"].val.k = "asmInt"
    /\ p.syms["X"].val.n = n

\* C3: an item whose keyword is not flagged Conditional, evaluated while the
\* current branch is inactive (ifMatch < ifNest), leaves the whole parser
\* unchanged; and after IF 1, IF 0, X = 1, ENDIF, X = 2, ENDIF the value of
\* X is 2.
C3_InactiveItemSkipped ==
    /\ [][(~Active(p) /\ lastItem' # Nil /\ Conditional \notin TypeOf(lastItem'))
            => p' = p]_vars
    /\ [](scen = Len(Scenario) => XIs(2))

\* C3, reached: X = 1 has been evaluated inside IF 1, IF 0 and X is still
\* undefined.
C3_Witness ==
    /\ scen = 3
    /\ LastIs(lastItem, "=")
    /\ ~Active(p)
    /\ "X" \notin DOMAIN p.syms

\* C4 as stated: every IF-family directive evaluated outside an open macro
\* body increments ifNest by exactly one.  IFB x, whose predicate raises a
\* diagnostic, refutes it.
C4_IfAlwaysNests ==
    [][(lastItem' # Nil /\ IsIf(lastItem') /\ p.macro.nest = 0)
         => p'.ifNest = p.ifNest + 1]_vars

(***************************************************************************)
(* Properties of the symbol table                                          *)
(***************************************************************************)
\* The step evaluates an assignment (= or EQU) on an active branch outside
\* a macro body, so that its handler runs.
Assigns ==
    /\ lastItem' # Nil
    /\ ToUpper(lastItem'.val) \in {"=", "EQU"}
    /\ Active(p)
    /\ p.macro.nest = 0

\* The spellings of the names of SymItems.
Spellings == {"foo", "FOO", "Foo"}

\* The value that the assignment it stores.
StoredValue(it) ==
    IF ToUpper(it.val) = "EQU" THEN asmExpression(it.params[1])
    ELSE newAsmInt(it.params[1]).val

\* IFDEF name would find the name defined in the parser q.
SeenByIFDEF(q, name) ==
    IFDEF(q, 0, item("", "IFDEF", <<name>>)).p.ifMatch = q.ifMatch + 1

\* C7: an assignment to a name whose symbol is flagged constant fails with
\* the diagnostic "constant symbol ... already defined elsewhere" and leaves
\* the symbol table unchanged; and no step ever changes or removes an entry
\* of the symbol table that is flagged constant.
C7_ConstantSymbolsKept ==
    /\ [][(Assigns /\ toSymCase(p, lastItem'.sym) \in DOMAIN p.syms
                   /\ p.syms[toSymCase(p, lastItem'.sym)].constant)
            => /\ p'.syms = p.syms
               /\ HasError(lastLog', "constant symbol " \o toSymCase(p, lastItem'.sym)
                                       \o " already defined elsewhere")]_vars
    /\ [][\A k \in DOMAIN p.syms :
            p.syms[k].constant => k \in DOMAIN p'.syms /\ p'.syms[k] = p.syms[k]]_vars

\* C7, reached: foo = 1 was refused because FOO is a constant.
C7_Witness ==
    /\ LastIs(lastItem, "=")
    /\ HasError(lastLog, "constant symbol FOO already defined elsewhere")
    /\ p.syms["FOO"].constant
    /\ p.syms["FOO"].val = asmExpression("3")

\* C8: after an assignment that succeeded under CASEMAP:ALL, NOTPUBLIC or
\* the default, getSym returns the value stored and IFDEF finds the name
\* under every spelling of it; under CASEMAP:NONE the assignment leaves the
\* symbols of the other spellings as they were, defined or not.
C8_CasePolicy ==
    [][(Assigns /\ lastLog' = NoErr) =>
         IF ~p.symCase
         THEN \A n \in Spellings :
                /\ getSym(p', n).err = NoErr
                /\ getSym(p', n).val = StoredValue(lastItem')
                /\ SeenByIFDEF(p', n)
         ELSE /\ getSym(p', lastItem'.sym).err = NoErr
              /\ getSym(p', lastItem'.sym).val = StoredValue(lastItem')
              /\ \A n \in Spellings \ {lastItem'.sym} :
                   /\ getSym(p', n) = getSym(p, n)
                   /\ SeenByIFDEF(p', n) = SeenByIFDEF(p, n)]_vars

\* C8, reached: foo was assigned under the default policy, which defined
\* FOO, and again under CASEMAP:NONE, which defined foo beside it.
C8_Witness ==
    /\ p.symCase
    /\ LastIs(lastItem, "=")
    /\ lastLog = NoErr
    /\ "FOO" \in DOMAIN p.syms /\ p.syms["FOO"].val.k = "asmInt"
    /\ "foo" \in DOMAIN p.syms
    /\ "Foo" \notin DOMAIN p.syms

(***************************************************************************)
(* Properties of the expression evaluator                                  *)
(***************************************************************************)
\* The integer that x op y denotes, x and y being integers.
Denotes(op, x, y) == BinaryFunction(op, asmInt(x, 0, 10), asmInt(y, 0, 10)).n

\* The integer that the decimal constant s denotes.
Constant(s) == newAsmInt(s).val.n

Precedence(op) == binaryOperators[op].precedence

\* C9 as stated: when op2 has the higher precedence, X = a op1 b op2 c makes
\* X the integer a op1 (b op2 c); X = 5 + 3 * 2 makes X the integer 11 with
\* base 10.  X = 5 + 3 * 2, which makes X 16, refutes it.
C9_PrecedenceHonoured ==
    /\ \A a \in Operands, b \in Operands, c \in Operands :
         \A op1 \in Operators, op2 \in Operators :
            (lastItem = ExprItem(a, op1, b, op2, c) /\ Precedence(op2) > Precedence(op1))
              => XIs(Denotes(op1, Constant(a), Denotes(op2, Constant(b), Constant(c))))
    /\ lastItem = ExprItem("5", "+", "3", "*", "2")
         => XIs(11) /\ p.syms["X"].val.base = 10

\* C10 as stated: when op1 and op2 have the same precedence, X = a op1 b op2 c
\* makes X the integer (a op1 b) op2 c.  X = 3 - 2 - 1, which makes X 2,
\* refutes it.
C10_LeftAssociative ==
    \A a \in Operands, b \in Operands, c \in Operands :
      \A op1 \in Operators, op2 \in Operators :
        (lastItem = ExprItem(a, op1, b, op2, c) /\ Precedence(op2) = Precedence(op1))
          => XIs(Denotes(op2, Denotes(op1, Constant(a), Constant(b)), Constant(c)))

(***************************************************************************)
(* Properties of the lexer and its channels                                *)
(***************************************************************************)
\* What the lexer of a text does, in order, when nothing ever blocks it.
RECURSIVE runAll(_)
runAll(l) == IF l.state = "nil" THEN l.out ELSE runAll(run(l))

\* The items of a file in the order of the source text, the items of an
\* included file standing in the place of the INCLUDE line; ok = FALSE and
\* the items before that line when an included file does not exist.
RECURSIVE Flatten(_), FlattenOut(_, _)
FlattenJoin(a, rest) ==
    IF a.ok THEN [items |-> a.items \o rest.items, ok |-> rest.ok] ELSE a

FlattenOut(out, i) ==
    IF i > Len(out) THEN [items |-> <<>>, ok |-> TRUE]
    ELSE FlattenJoin(IF out[i].op = "send" THEN [items |-> <<out[i].it>>, ok |-> TRUE]
                     ELSE Flatten(out[i].it.params[1]),
                     FlattenOut(out, i + 1))

Flatten(name) ==
    IF name \in DOMAIN Files THEN FlattenOut(runAll(lexFile(name)), 1)
    ELSE [items |-> <<>>, ok |-> FALSE]

\* The files that the INCLUDE lines of a file name.
IncludesOf(out) == {out[i].it.params[1] : i \in {j \in 1..Len(out) : out[j].op = "lexINCLUDE"}}
Includes(name) == IncludesOf(runAll(lexFile(name)))

\* The file exists and so does every file included from it, to the given
\* depth of inclusion.
RECURSIVE AllResolve(_, _)
AllResolve(name, depth) ==
    /\ name \in DOMAIN Files
    /\ depth > 0 => \A g \in Includes(name) : AllResolve(g, depth - 1)

\* No chain of inclusions from the file is longer than depth, which holds
\* for the number of files only if no file includes itself.
RECURSIVE IncludesEnd(_, _)
IncludesEnd(name, depth) ==
    \/ name \notin DOMAIN Files
    \/ /\ depth > 0
       /\ \A g \in Includes(name) : IncludesEnd(g, depth - 1)

NumFiles == Cardinality(DOMAIN Files)

IsPrefix(a, b) == Len(a) <= Len(b) /\ SubSeq(b, 1, Len(a)) = a

Label(name) == [typ |-> itemLabel, sym |-> name, val |-> "", params |-> <<>>]

\* The items of m.asm and of the files included from it, read off the texts.
ItemsOfM ==
    << item("", "a1", <<>>), item("", "b1", <<>>), item("", "c1", <<"<p, q>">>),
       Label("lc"), item("", "b2", <<>>), Label("l"),
       item("", "a2", <<"x", "y">>), item("X", "=", <<"1">>) >>

\* C5: what main has received is always the beginning of the items of its
\* file in source order, the items of every included file (recursively)
\* standing between the items before the INCLUDE line and the items after
\* it; when main leaves its loop it has received all of them.
C5_SourceOrder ==
    /\ IsPrefix(recv, Flatten(driver.file).items)
    /\ driver.state = "done" => recv = Flatten(driver.file).items
    /\ driver.state = "done" /\ driver.file = "m.asm" => recv = ItemsOfM

\* C5, reached: main has received b2, the item that follows the INCLUDE line
\* of i.inc, after the items of j.inc, and not yet the label l that follows
\* the INCLUDE line of m.asm.
C5_Witness ==
    /\ driver.file = "m.asm"
    /\ Len(recv) = 5
    /\ recv[4] = Label("lc")
    /\ recv[5] = item("", "b2", <<>>)

RECURSIVE Tokens(_)
Tokens(s) ==
    IF Len(s) = 0 THEN <<>>
    ELSE IF IndexByte(s, " ") < 0 THEN <<s>>
    ELSE <<SubSeq(s, 1, IndexByte(s, " "))>>
            \o Tokens(SubSeq(s, IndexByte(s, " ") + 2, Len(s)))

\* The parentheses of the tokens from the i-th on, depth of them being open:
\* how many right ones have no left one, and how many left ones stay open.
RECURSIVE ParenScan(_, _, _)
ParenScan(ts, i, depth) ==
    IF i > Len(ts) THEN [right |-> 0, open |-> depth]
    ELSE IF ts[i] = "(" THEN ParenScan(ts, i + 1, depth + 1)
    ELSE IF ts[i] = ")" /\ depth = 0
    THEN [right |-> ParenScan(ts, i + 1, 0).right + 1,
          open |-> ParenScan(ts, i + 1, 0).open]
    ELSE IF ts[i] = ")" THEN ParenScan(ts, i + 1, depth - 1)
    ELSE ParenScan(ts, i + 1, depth)

\* The expression that the last assignment evaluated, as tokens.
LastTokens == IF lastItem = Nil THEN <<>> ELSE Tokens(lastItem.params[1])

\* The last assignment failed with the given message and defined nothing.
FailedWith(msg) ==
    /\ HasError(lastLog, msg)
    /\ Severity(lastLog) >= ESError
    /\ "X" \notin DOMAIN p.syms

\* The operators of ExprTokens by the places they can take.
UnaryTokens == {"+"}
BinaryTokens == {"+", "/"}
NumberTokens == {"0", "1", "2"}

\* The positions at which an expression (a term) that starts at the i-th
\* token can end, by the grammar
\*     expression ::= term | term binary expression
\*     term ::= number | unary term | ( expression )
RECURSIVE ExprEnds(_, _)
RECURSIVE TermEnds(_, _)
TermEnds(ts, i) ==
    IF i > Len(ts) THEN {}
    ELSE IF ts[i] \in NumberTokens THEN {i + 1}
    ELSE IF ts[i] = "("
    THEN {j + 1 : j \in {k \in ExprEnds(ts, i + 1) : k <= Len(ts) /\ ts[k] = ")"}}
    ELSE IF ts[i] \in UnaryTokens THEN TermEnds(ts, i + 1)
    ELSE {}

ExprEnds(ts, i) ==
    TermEnds(ts, i) \cup
        UNION {ExprEnds(ts, j + 1) :
                 j \in {k \in TermEnds(ts, i) : k <= Len(ts) /\ ts[k] \in BinaryTokens}}

WellFormed(ts) == (Len(ts) + 1) \in ExprEnds(ts, 1)

\* The tokens with the parentheses they lack: left ones in front for the
\* right ones without a left one, right ones at the end for the left ones
\* that stay open.
Completed(ts) ==
    [i \in 1..ParenScan(ts, 1, 0).right |-> "("] \o ts
        \o [i \in 1..ParenScan(ts, 1, 0).open |-> ")"]

\* C11 as stated: an assignment whose expression has a right parenthesis
\* without a left one, or a left one that is never closed, fails with an
\* error and defines nothing; when the expression lacks nothing but
\* parentheses, the error is "mismatched parentheses" for a right one and
\* "missing a right parenthesis" for a left one.  X = 1 ), which makes X 1
\* without any diagnostic, refutes it.
C11_ParenthesesReported ==
    (lastItem # Nil /\ ~crashed) =>
        /\ (ParenScan(LastTokens, 1, 0).right > 0 \/ ParenScan(LastTokens, 1, 0).open > 0)
             => Severity(lastLog) >= ESError /\ "X" \notin DOMAIN p.syms
        /\ (ParenScan(LastTokens, 1, 0).right > 0 /\ WellFormed(Completed(LastTokens)))
             => FailedWith("mismatched parentheses")
        /\ (ParenScan(LastTokens, 1, 0).open > 0 /\ WellFormed(Completed(LastTokens)))
             => FailedWith("missing a right parenthesis")

\* The RPN tape that shunt makes of the expression of the last assignment
\* (the expressions of ExprSeqs name no symbol).
LastTape == shunt(p, lastItem.params[1])

\* The values that the tape leaves from its i-th element on, depth values
\* lying on the stack: an operand adds one, an operator takes as many as its
\* arity and adds one; under says that an operator found fewer.
RECURSIVE TapeScan(_, _, _)
TapeScan(vals, i, depth) ==
    IF i > Len(vals) THEN [under |-> FALSE, residual |-> depth]
    ELSE IF vals[i].k = "asmInt" THEN TapeScan(vals, i + 1, depth + 1)
    ELSE IF depth < vals[i].args THEN [under |-> TRUE, residual |-> depth]
    ELSE TapeScan(vals, i + 1, depth - vals[i].args + 1)

\* C12 as stated: the assignment of a well-formed expression ends without
\* error and makes X an integer; when solve is given a tape on which an
\* operator finds fewer operands than its arity the result has "arithmetic
\* stack underflow", and when the tape leaves a number of values other
\* than 1 it has "invalid RPN expression".  X = 1 / 0, on which solve ends
\* the program with a division by zero, refutes it.
C12_SolverDiscipline ==
    lastItem # Nil =>
        /\ WellFormed(LastTokens) =>
             /\ ~crashed
             /\ lastLog = NoErr
             /\ "X" \in DOMAIN p.syms /\ p.syms["X"].val.k = "asmInt"
        /\ (~crashed /\ Severity(LastTape.err) < ESError) =>
             /\ TapeScan(LastTape.stack.vals, 1, 0).under
                  => HasError(lastLog, "arithmetic stack underflow")
             /\ (~TapeScan(LastTape.stack.vals, 1, 0).under
                   /\ TapeScan(LastTape.stack.vals, 1, 0).residual # 1)
                  => HasError(lastLog, "invalid RPN expression")

(***************************************************************************)
(* Properties of integers and strings                                      *)
(***************************************************************************)
\* |n| of the int64 n as an unsigned number of 8 bytes.
Magnitude(n) == IF IsNeg64(n) THEN Neg64(n) ELSE n

\* w bytes hold the unsigned number m: the bytes in front of them are zero.
HeldBy(m, w) == \A i \in 1..(8 - w) : m[i] = 0

\* The least of 1, 2, 4 and 8 bytes that holds m.
SmallestWidth(m) ==
    CHOOSE w \in {1, 2, 4, 8} :
        HeldBy(m, w) /\ \A v \in {1, 2, 4, 8} : HeldBy(m, v) => w <= v

\* C13 as stated: width() of every int64 n is the smallest of 1, 2, 4 and 8
\* bytes that holds |n|.  n = 255, whose width() is 2, refutes it.
C13_WidthIsSmallest ==
    (calc.fn = "width" /\ calc.done) => calc.out = SmallestWidth(Magnitude(calc.in))

\* C14 (as amended): toInt rejects exactly the strings of more than 8 bytes;
\* for a string of at most 8 bytes the integer has base 256, and
\* formatASCII of it is the string without the zero bytes in front of it,
\* which is the string itself when it does not begin with a zero byte.
C14_RoundTrip ==
    /\ (calc.fn = "toInt" /\ calc.done) =>
         /\ calc.out.err # NoErr <=> Len(calc.in) > 8
         /\ calc.out.val.base = 256
    /\ calc.fn = "formatASCII" =>
         /\ calc.out = TrimLeftZero(hist[1])
         /\ (Len(hist[1]) = 0 \/ hist[1][1] # 0) => calc.out = hist[1]

\* C14, reached: a string of 8 bytes whose first byte is the highest, which
\* makes a negative integer, came back as it was.
C14_Witness ==
    /\ calc.fn = "formatASCII"
    /\ hist[1] = <<255, 128, 128, 128, 128, 128, 128, 128>>
    /\ IsNeg64(calc.in.n)
    /\ calc.out = hist[1]

\* C14 as stated: formatASCII of toInt of every string of at most 8 bytes is
\* the string.  The string of one zero byte, which comes back empty,
\* refutes it.
C14_AsStated == calc.fn = "formatASCII" => calc.out = hist[1]

(***************************************************************************)
(* Properties of segments and structures                                   *)
(***************************************************************************)
\* The bytes of the blobs of the first i calls of hist.
RECURSIVE BytesGiven(_)
BytesGiven(i) ==
    IF i = 0 THEN 0 ELSE EmitLen(hist[i].blob) + BytesGiven(i - 1)

\* The i-th call returned the diagnostic of the overflow of a 16-bit
\* segment.
ReportedOverflow(i) ==
    \E j \in 1..Len(hist[i].err) :
        /\ hist[i].err[j].s = "declaration overflows 16-bit segment: S"
        /\ hist[i].err[j].sev = ESError

\* C15: over the AddData calls of a segment, the diagnostic 'declaration
\* overflows N-bit segment' is returned by the first call whose blob takes
\* the bytes of the segment past 2^(wordsize*8)-1, and by no other call:
\* not by a later one, and by none when the bytes stay within that size.
C15_OverflowOnce ==
    seg # Nil =>
        \A i \in 1..Len(hist) :
            ReportedOverflow(i)
                <=> /\ BytesGiven(i) > Pow2(16) - 1
                    /\ BytesGiven(i - 1) <= Pow2(16) - 1

\* The diagnostic was returned, and two blobs with bytes came after it.
C15_Witness ==
    /\ seg # Nil /\ Len(hist) >= 3
    /\ ReportedOverflow(Len(hist) - 2)
    /\ EmitLen(hist[Len(hist) - 1].blob) > 0
    /\ EmitLen(hist[Len(hist)].blob) > 0

RECURSIVE UnionWarnings(_)
UnionWarnings(e) ==
    IF Len(e) = 0 THEN 0
    ELSE UnionWarnings(Tail(e))
            + (IF /\ e[1].s = "ignoring default value for union member beyond the first"
                  /\ e[1].sev = ESWarning
               THEN 1 ELSE 0)

\* The length of the longest blob of hist.
LongestGiven ==
    IF hist = <<>> THEN 0
    ELSE CHOOSE n \in {EmitLen(hist[i].blob) : i \in 1..Len(hist)} :
            \A i \in 1..Len(hist) : EmitLen(hist[i].blob) <= n

Zeros(n) == [i \in 1..n |-> 0]

\* The layout of the union struc when the blob of the f-th call counts as
\* its first member (f = 0: it has none): the width is the longest blob's,
\* the bytes are the first member's and zeros behind them, every later blob
\* with a byte that is not zero was answered by one warning, the offset is
\* zero.
UnionLayout(f) ==
    /\ strucWidth(struc) = LongestGiven
    /\ BlobListEmit(struc.data) =
          IF f = 0 THEN <<>>
          ELSE EmitBytes(hist[f].blob)
                  \o Zeros(LongestGiven - EmitLen(hist[f].blob))
    /\ \A i \in (f + 1)..Len(hist) :
          f # 0 /\ EmitsNonZero(hist[i].blob)
              => UnionWarnings(hist[i].err) = 1
    /\ strucOffset(struc).off = 0

\* The offset of the structure struc is the length of its data, the bytes
\* of all the blobs given to it.
StrucLayout ==
    /\ strucOffset(struc).off = BytesGiven(Len(hist))
    /\ strucWidth(struc) = BytesGiven(Len(hist))

\* The first call of hist whose blob has bytes, or 0.
FirstWithBytes ==
    IF \E i \in 1..Len(hist) : EmitLen(hist[i].blob) > 0
    THEN CHOOSE i \in 1..Len(hist) :
            /\ EmitLen(hist[i].blob) > 0
            /\ \A j \in 1..(i - 1) : EmitLen(hist[j].blob) = 0
    ELSE 0

\* C17 as stated: over the AddData calls of a union, its width is the
\* length of the longest blob, its bytes are those of the first member
\* with zero padding behind, every later member with a non-zero byte gave
\* one warning, and its offset is 0; a structure's offset is the length of
\* its data.
C17_AsStated ==
    struc # Nil =>
        IF struc.flag = sUnion
        THEN UnionLayout(IF hist = <<>> THEN 0 ELSE 1)
        ELSE StrucLayout

\* C17: the same, with the first member that has bytes in the place of
\* the first member: the members in front of it are empty and leave the
\* union as it was.
C17_UnionLayout ==
    struc # Nil =>
        IF struc.flag = sUnion
        THEN UnionLayout(FirstWithBytes)
        ELSE StrucLayout

\* A union inside a union took a member of one byte and then a longer one
\* with a byte that is not zero.
C17_Witness ==
    /\ struc # Nil /\ struc.flag = sUnion /\ Len(hist) >= 2
    /\ struc.prev # Nil /\ struc.prev.flag = sUnion
    /\ EmitLen(hist[1].blob) = 1
    /\ EmitLen(hist[2].blob) = 2 /\ EmitsNonZero(hist[2].blob)
    /\ UnionWarnings(hist[2].err) = 1

(***************************************************************************)
(* Properties of the lexer's reading                                       *)
(***************************************************************************)
RECURSIVE ConcatAll(_)
ConcatAll(ss) == IF Len(ss) = 0 THEN "" ELSE ss[1] \o ConcatAll(Tail(ss))

\* The text of the items that the lexer has put out, in their order.
RECURSIVE ProducedText(_)
ProducedText(out) ==
    IF Len(out) = 0 THEN ""
    ELSE out[1].it.sym \o out[1].it.val \o ConcatAll(out[1].it.params)
            \o ProducedText(Tail(out))

\* Whether the bytes of t are bytes of s at rising positions: each byte of
\* s gives at most one byte of t.
RECURSIVE IsSubsequence(_, _)
IsSubsequence(t, s) ==
    IF Len(t) = 0 THEN TRUE
    ELSE IF Len(s) = 0 THEN FALSE
    ELSE IF Char(t, 1) = Char(s, 1)
    THEN IsSubsequence(SubSeq(t, 2, Len(t)), SubSeq(s, 2, Len(s)))
    ELSE IsSubsequence(t, SubSeq(s, 2, Len(s)))

\* C18: for every input, when the lexer has terminated the lex stream has
\* consumed every byte of the input (it did not stop before the end), and
\* the text of its items comes from the bytes of the input in their order,
\* no byte giving text twice; in no round of run does the stream go back
\* behind the place where the round began.
C18_ConsumesAll ==
    calc.fn = "run" =>
        /\ calc.done => calc.out.stream.c >= Len(calc.in)
        /\ IsSubsequence(ProducedText(calc.out.out), calc.in)
        /\ ~calc.done => run(calc.out).stream.c >= calc.out.stream.c

\* The bytes that open a nest and the byte that closes the nest of each.
NestOpeners == {"{", "(", "<", "\"", "'"}

NestCloser(b) ==
    CASE b = "{" -> "}" [] b = "(" -> ")" [] b = "<" -> ">" [] OTHER -> b

\* The first place of the text t with a byte of the set bs, or 0.
FirstOf(t, bs) ==
    IF \E i \in 1..Len(t) : Char(t, i) \in bs
    THEN CHOOSE i \in 1..Len(t) :
            Char(t, i) \in bs /\ \A j \in 1..(i - 1) : Char(t, j) \notin bs
    ELSE 0

\* The text t without the spaces and tabs in front of it.
RECURSIVE SkipBlanks(_)
SkipBlanks(t) ==
    IF Len(t) > 0 /\ Char(t, 1) \in {" ", "\t"}
    THEN SkipBlanks(SubSeq(t, 2, Len(t)))
    ELSE t

\* For a parameter ret behind which rest is left of the text: ret neither
\* begins nor ends with a space or tab; rest is, behind spaces and tabs,
\* empty or at a comma, semicolon or linebreak; in front of its first
\* nesting byte or backslash ret holds no delimiter; and when that byte
\* opens a nest and the parameter ended at a delimiter, the byte that
\* closes this nest stands in ret behind it.
ParamEndsWell(ret, rest) ==
    /\ Len(ret) > 0 =>
          Char(ret, 1) \notin whitespace /\ Char(ret, Len(ret)) \notin whitespace
    /\ SkipBlanks(rest) = ""
          \/ Char(SkipBlanks(rest), 1) \in {",", ";", "\r", "\n"}
    /\ \A i \in 1..Len(ret) :
          Char(ret, i) \in {",", ";", "\r", "\n"}
              => FirstOf(ret, NestOpeners \cup {"\\"}) \in 1..(i - 1)
    /\ /\ FirstOf(ret, NestOpeners \cup {"\\"}) # 0
       /\ Char(ret, FirstOf(ret, NestOpeners \cup {"\\"})) \in NestOpeners
       /\ SkipBlanks(rest) # ""
       => \E j \in (FirstOf(ret, NestOpeners \cup {"\\"}) + 1)..Len(ret) :
             Char(ret, j) =
                NestCloser(Char(ret, FirstOf(ret, NestOpeners \cup {"\\"})))

\* C19: nextParam ends a parameter at a comma, semicolon or linebreak met
\* at nesting level 0, or at the end of the input: behind a nest-opening
\* byte entered at level 0 no delimiter ends the parameter before the
\* closing byte of the same class (inside a quote, the same quote) is
\* consumed, and the parameter has no spaces or tabs at its end.
C19_ParamEndsAtLevelZero ==
    (calc.fn = "nextParam" /\ calc.done) =>
        /\ calc.out.stream.input = calc.in
        /\ calc.out.ret \o SubSeq(calc.in, calc.out.stream.c + 1, Len(calc.in))
              = SkipBlanks(calc.in)
        /\ ParamEndsWell(calc.out.ret,
                         SubSeq(calc.in, calc.out.stream.c + 1, Len(calc.in)))

\* A quoted parameter with the other quote and a comma inside the quotes
\* ended at a comma behind them.
C19_Witness ==
    /\ calc.fn = "nextParam" /\ calc.done
    /\ calc.in = "<a 'b>, c' d>\t \r\n"
    /\ calc.out.ret = "<a 'b>, c' d>"

(***************************************************************************)
(* Properties of macro expansion                                           *)
(***************************************************************************)
\* The text t with every name of a local, ?? and the hex digits behind it,
\* replaced by ??#.
RECURSIVE MaskNames(_), SkipHex(_)
SkipHex(t) ==
    IF Len(t) > 0 /\ IndexByte(HexDigits, Char(t, 1)) >= 0
    THEN SkipHex(SubSeq(t, 2, Len(t)))
    ELSE t

MaskNames(t) ==
    IF Len(t) = 0 THEN ""
    ELSE IF Len(t) >= 3 /\ SubSeq(t, 1, 2) = "??"
            /\ IndexByte(HexDigits, Char(t, 3)) >= 0
    THEN "??#" \o MaskNames(SkipHex(SubSeq(t, 3, Len(t))))
    ELSE Char(t, 1) \o MaskNames(SubSeq(t, 2, Len(t)))

MaskItem(it) ==
    [typ |-> it.typ, sym |-> MaskNames(it.sym), val |-> MaskNames(it.val),
     params |-> [j \in 1..Len(it.params) |-> MaskNames(it.params[j])]]

\* The items that the expansion r has handed to eval and that eval kept.
ExpandedItems(r) ==
    SubSeq(r.p.instructions, Len(calc.in.p.instructions) + 1,
           Len(r.p.instructions))

\* The tokens of the text s, as replace reads them.
RECURSIVE TokensFrom(_)
TokensFrom(stream) ==
    IF peek(stream) = eof THEN {}
    ELSE {nextToken(stream, shuntDelim).ret}
            \cup TokensFrom(nextToken(stream, shuntDelim).stream)

LineTokens(line) ==
    UNION ({TokensFrom(newLexStream(line.sym)), TokensFrom(newLexStream(line.val))}
            \cup {TokensFrom(newLexStream(line.params[j])) :
                    j \in 1..Len(line.params)})

\* The macro of the call refers to none of its arguments in its body.
NoArgumentInBody ==
    \A i \in 1..Len(getSym(calc.in.p, "M").val.code) :
      \A a \in 1..Len(getSym(calc.in.p, "M").val.args) :
        \A t \in LineTokens(getSym(calc.in.p, "M").val.code[i]) :
            toSymCase(calc.in.p, t) # getSym(calc.in.p, "M").val.args[a].name

Supplied(it, i) == Len(it.params) >= i /\ it.params[i] # ""

\* What a parameter of the call denotes: a text literal its text, any other
\* parameter itself.
Denoted(param) ==
    IF Char(param, 1) = "<" THEN SubSeq(param, 2, Len(param) - 1) ELSE param

\* The text the i-th argument of the macro is to receive from the call it.
Received(args, it, i) ==
    IF Supplied(it, i) THEN Denoted(it.params[i]) ELSE args[i].def

\* The required arguments that the call it leaves without a parameter.
Unsupplied(args, it) ==
    {i \in 1..Len(args) : args[i].typ = "REQ" /\ ~Supplied(it, i)}

RequiredMessage(args, i) ==
    "macro argument #" \o FormatInt(i) \o " (" \o args[i].name \o ") is required"

\* The line of the body as an expansion leaves it in the instruction list.
BoundBody(args, it) ==
    item("", "DB", <<Received(args, it, 1),
                     IF Len(args) >= 2 THEN Received(args, it, 2) ELSE "B">>)

BindFails(in, r) ==
    /\ r.ret /\ ~r.panic
    /\ \A i \in Unsupplied(in.args, in.it) :
          \E j \in 1..Len(r.err) : r.err[j].s = RequiredMessage(in.args, i)
    /\ r.p = in.p /\ r.log = NoErr

BindSucceeds(in, r) ==
    /\ ~r.ret /\ ~r.panic /\ r.err = NoErr
    /\ r.p.instructions = Append(in.p.instructions, BoundBody(in.args, in.it))

\* C21: an argument receives the parameter of the call at its position when
\* one is supplied and not empty, and its declared default (empty when it has
\* none) otherwise; a required argument without a parameter makes the
\* expansion fail with 'macro argument #i (name) is required', i counted
\* from 1, and no item of the body is evaluated.
C21_ArgumentsBound ==
    (calc.fn = "expandMacro" /\ "args" \in DOMAIN calc.in /\ Len(hist) = 1) =>
        IF Unsupplied(calc.in.args, calc.in.it) # {}
        THEN BindFails(calc.in, hist[1])
        ELSE BindSucceeds(calc.in, hist[1])

\* M MACRO A:REQ, B:=<9> called as M 3 binds A to 3 and B to 9, and the call
\* of M alone fails for the argument #1 (A).
C21_Witness ==
    /\ calc.fn = "expandMacro" /\ "args" \in DOMAIN calc.in /\ Len(hist) = 1
    /\ [i \in 1..Len(calc.in.args) |-> calc.in.args[i].typ] = <<"REQ", "=<9>">>
    /\ \/ /\ calc.in.it.params = <<"3">>
          /\ hist[1].p.instructions[Len(hist[1].p.instructions)].params = <<"3", "9">>
       \/ /\ calc.in.it.params = <<>>
          /\ hist[1].ret
          /\ hist[1].err = ErrorListF(ESError, "macro argument #1 (A) is required")

(***************************************************************************)
(* Properties of the definition of macros                                  *)
(***************************************************************************)
\* The ENDM that is evaluated in this step closes the macro that a MACRO
\* directive with a name opened.
ClosesMacro ==
    /\ p.macro.nest = 1 /\ p.macro.name # ""
    /\ lastItem' # Nil /\ ToUpper(lastItem'.val) = "ENDM"
    /\ Len(p'.instructions) = Len(p.instructions) + 1

\* The header of the macro that is open.
OpenHeader == p.instructions[p.macro.start + 1]

\* The places of the header's parameters before the last that hold a REST or
\* VARARG parameter.
RestBeforeLast(params) ==
    {i \in 1..(Len(params) - 1) :
        ToUpper(splitColon(params[i]).val) \in {"REST", "VARARG"}}

RestMessage(param) ==
    ToUpper(splitColon(param).key) \o ":" \o ToUpper(splitColon(param).val)
        \o " must be the last parameter"

Logged(log, msg) == \E j \in 1..Len(log) : log[j].s = msg

\* C22: a REST or VARARG parameter that is not the last one of the header is
\* rejected when the macro is defined: the ENDM that closes the macro reports
\* '<name>:<type> must be the last parameter', and no macro symbol is defined
\* or replaced.
C22_RestMustBeLast ==
    [][(ClosesMacro /\ RestBeforeLast(OpenHeader.params) # {}) =>
          /\ \E i \in RestBeforeLast(OpenHeader.params) :
                Logged(lastLog', RestMessage(OpenHeader.params[i]))
          /\ p'.syms = p.syms]_vars

\* M is defined with REST in the last place, and then the definition with
\* a:rest before B was rejected: M is the macro it was.
C22_Witness ==
    /\ Len(p.instructions) = 4
    /\ p.instructions[3].params = <<"a:rest", "B">>
    /\ lastItem.val = "ENDM"
    /\ Logged(lastLog, "A:REST must be the last parameter")
    /\ p.macro.nest = 0
    /\ "M" \in DOMAIN p.syms /\ p.syms["M"].val.args[2].typ = "REST"

\* A macro that a MACRO directive with a name opened at depth 0 is open.
MacroOpen == p.macro.name # "" /\ p.macro.nest >= 1

\* An item is evaluated in this step.
Evaluates ==
    lastItem' # Nil /\ Len(p'.instructions) = Len(p.instructions) + 1

\* The items without the LOCAL directives in front.
RECURSIVE DropLeadingLocals(_)
DropLeadingLocals(items) ==
    IF Len(items) > 0 /\ ToUpper(items[1].val) = "LOCAL"
    THEN DropLeadingLocals(Tail(items))
    ELSE items

\* The names of the LOCAL directives in front of the items.
RECURSIVE LeadingLocals(_)
LeadingLocals(items) ==
    IF Len(items) > 0 /\ ToUpper(items[1].val) = "LOCAL"
    THEN items[1].params \o LeadingLocals(Tail(items))
    ELSE <<>>

\* The items after the header of the open macro.
ItemsSinceHeader == SubSeq(p.instructions, p.macro.start + 2, Len(p.instructions))

HasLateLocal(items) ==
    \E i \in 1..Len(DropLeadingLocals(items)) :
        ToUpper(DropLeadingLocals(items)[i].val) = "LOCAL"

\* The macro of the name that the open macro has is, after this step, the
\* one with the given body.
DefinedWithBody(body) ==
    /\ toSymCase(p, p.macro.name) \in DOMAIN p'.syms
    /\ p'.syms[toSymCase(p, p.macro.name)].val.k = "asmMacro"
    /\ p'.syms[toSymCase(p, p.macro.name)].val.code = body
    /\ \A key \in DOMAIN p.syms \ {toSymCase(p, p.macro.name)} :
          key \in DOMAIN p'.syms /\ p'.syms[key] = p.syms[key]

\* What C28 says of one step while a macro is open, ok being the steps of
\* ENDM at depth 1 for which it is said.
CaptureStep(ok) ==
    (MacroOpen /\ Evaluates) =>
        /\ Macro \notin TypeOf(lastItem') =>
              p' = [p EXCEPT !.instructions = Append(p.instructions, lastItem')]
        /\ ~ClosesMacro => p'.syms = p.syms
        /\ (ClosesMacro /\ RestBeforeLast(OpenHeader.params) = {} /\ ok) =>
              DefinedWithBody(DropLeadingLocals(ItemsSinceHeader))

\* C28: between a MACRO with a name at depth 0 and its matching ENDM only
\* directives with the Macro flag are executed: any other item is buffered
\* and changes neither the symbol table nor the state of the conditionals,
\* procedures, segments and structures.  The macro symbol is defined exactly
\* when the ENDM that takes the depth from 1 to 0 is processed, and its
\* body is the items strictly between the two directives, in their order,
\* without the LOCAL directives in front.
C28_Capture == [][CaptureStep(TRUE)]_vars

\* The same for the macros without a LOCAL directive behind another item.
C28_CaptureUnlessLateLocal == [][CaptureStep(~HasLateLocal(ItemsSinceHeader))]_vars

\* What the ENDM at depth 1 is to do with the LOCAL directives of the body,
\* for the bodies that ok holds of.
LocalsStep(ok) ==
    (ClosesMacro /\ RestBeforeLast(OpenHeader.params) = {} /\ ok) =>
        /\ DefinedWithBody(DropLeadingLocals(ItemsSinceHeader))
        /\ p'.syms[toSymCase(p, p.macro.name)].val.locals =
              [j \in 1..Len(LeadingLocals(ItemsSinceHeader)) |->
                  toSymCase(p, LeadingLocals(ItemsSinceHeader)[j])]
        /\ HasLateLocal(ItemsSinceHeader) =>
              Logged(lastLog',
                     "LOCAL directives must come first in a macro body, ignoring: L")

\* C29: the LOCAL directives in front of a macro's body add their names to
\* the macro's locals and are removed from the body; a LOCAL directive after
\* any other item of the body produces a warning and is ignored (it adds no
\* name), and the macro is defined all the same with everything else.
C29_Locals == [][LocalsStep(TRUE)]_vars

\* The same for the macros without a LOCAL directive behind another item.
C29_LeadingLocals == [][LocalsStep(~HasLateLocal(ItemsSinceHeader))]_vars

\* C26: the depth of open macro blocks, macro.nest, is not negative in any
\* state the parser reaches by MACRO, IRP, IRPC, REPT and ENDM directives,
\* an ENDM without an open block and a MACRO without a name included, so
\* that the directives after an unbalanced ENDM are evaluated.
C26_NestNotNegative == p.macro.nest >= 0

(***************************************************************************)
(* Properties of the segments                                              *)
(***************************************************************************)
\* The wordsize that the USE attribute in effect of a SEGMENT item asks for:
\* the last attribute counts, 0 is no attribute.
UseOf(it) ==
    IF Len(it.params) = 0 THEN 0
    ELSE CASE it.params[1] = "USE32" -> 4
           [] it.params[1] = "USE32 USE16" -> 2
           [] it.params[1] \in {"USE64", "PARA use64 'CODE'"} -> 8
           [] OTHER -> 0

\* The value of @WORDSIZE that the directive evaluated in this step finds.
WordsizeFound == evalInitSyms(p).syms["@WORDSIZE"].val.n

\* The current segment as the fields of the parser give it, with the name,
\* wordsize and prev link of the asmSegment that p.seg points to.
CurrentSegment(q) ==
    [seg |-> q.seg, segNest |-> q.segNest,
     at |-> IF q.seg = Nil THEN Nil ELSE q.segs[q.seg.name]]

\* The SEGMENT directive of this step asks for a wordsize w beyond the one
\* of the CPU.
AsksBeyondCPU(w) ==
    /\ lastItem' # Nil /\ lastItem'.val = "SEGMENT"
    /\ Len(p'.instructions) = Len(p.instructions) + 1
    /\ UseOf(lastItem') = w /\ WordsizeFound < w

SegmentRefused(msg) ==
    /\ Logged(lastLog', msg)
    /\ CurrentSegment(p') = CurrentSegment(evalInitSyms(p))
    /\ p'.syms = evalInitSyms(p).syms

C23_PointerKept ==
    [][/\ AsksBeyondCPU(4) =>
            /\ Logged(lastLog', "32-bit segments require at least a .386 CPU setting")
            /\ p'.seg = p.seg /\ p'.segNest = p.segNest
            /\ p'.syms = evalInitSyms(p).syms
       /\ AsksBeyondCPU(8) =>
            /\ Logged(lastLog', "64-bit segments require at least a .X64 CPU setting")
            /\ p'.seg = p.seg /\ p'.segNest = p.segNest
            /\ p'.syms = evalInitSyms(p).syms]_vars

(***************************************************************************)
(* Properties of the operators                                             *)
(***************************************************************************)
\* C24: for the operators +, *, AND, OR, XOR, EQ and NE and all 64-bit
\* integers x and y, with arithmetic that wraps at 2^64, x OP y and y OP x
\* yield the same integer value.
C24_Commutes ==
    (calc.fn = "Calc" /\ calc.done) => calc.out.xy.n = calc.out.yx.n

\* The product of the least int64 and 255 wrapped, and so did the sum of
\* two operands; the results agree in the value and differ in the base.
C24_Witness ==
    /\ calc.fn = "Calc" /\ calc.done
    /\ \/ /\ calc.in.id = "*"
          /\ calc.in.x.n = <<128, 0, 0, 0, 0, 0, 0, 0>> /\ calc.in.y.n = I64(255)
          /\ calc.out.xy.n = <<128, 0, 0, 0, 0, 0, 0, 0>>
       \/ /\ calc.in.id = "+"
          /\ calc.in.x.n = <<255, 255, 255, 255, 255, 255, 255, 255>>
          /\ calc.in.y.n = <<127, 255, 255, 255, 255, 255, 255, 255>>
          /\ calc.out.xy.n = <<127, 255, 255, 255, 255, 255, 255, 254>>
    /\ calc.out.xy.n = calc.out.yx.n
    /\ calc.out.xy.base # calc.out.yx.base

\* C25: in every state the parser reaches by SEGMENT and ENDS directives, a
\* SEGMENT that names an open segment included, segNest is not negative,
\* the current segment is nil exactly when segNest is 0, and the prev links
\* from the current segment lead through exactly segNest segments and end.
C25_SegmentChain ==
    /\ p.segNest >= 0
    /\ (p.seg = Nil) <=> (p.segNest = 0)
    /\ PrevLinks(p, p.seg, Cardinality(DOMAIN p.segs)) = p.segNest

\* The ENDS directive that is evaluated in this step, and its symbol in the
\* parser's symbol case.
EvaluatesENDS ==
    /\ lastItem' # Nil /\ lastItem'.val = "ENDS"
    /\ Len(p'.instructions) = Len(p.instructions) + 1

EndsSym == toSymCase(p, lastItem'.sym)

\* The name that ENDS is to give for the structure v: its own name for the
\* outermost structure, none for a nested one.
ExpectedName(v) == IF v.prev = Nil THEN v.name ELSE ""

SegmentsKept == p'.seg = p.seg /\ p'.segNest = p.segNest /\ p'.segs = p.segs

\* C27: ENDS with the symbol s closes exactly the innermost structure level
\* and leaves the segments alone when a structure or union is open and s is
\* the name expected for it; otherwise it closes the current segment when s
\* is that segment's name; otherwise it reports 'unmatched ENDS' and leaves
\* both chains as they are.
C27_EndsBySituation ==
    [][EvaluatesENDS =>
          IF p.struc # Nil /\ EndsSym = ExpectedName(p.struc)
          THEN p'.struc = p.struc.prev /\ SegmentsKept
          ELSE IF p.seg # Nil /\ p.segs[p.seg.name].name = EndsSym
          THEN /\ p'.seg = p.segs[p.seg.name].prev
               /\ p'.segNest = p.segNest - 1
          ELSE /\ Logged(lastLog', "unmatched ENDS: " \o EndsSym)
               /\ p'.struc = p.struc /\ SegmentsKept]_vars

\* The same with the segment tried first, as ENDS has it.
C27_SegmentFirst ==
    [][EvaluatesENDS =>
          IF p.seg # Nil /\ p.segs[p.seg.name].name = EndsSym
          THEN /\ p'.seg = p.segs[p.seg.name].prev
               /\ p'.segNest = p.segNest - 1
               /\ p'.struc = Nil
          ELSE IF p.struc # Nil /\ EndsSym = ExpectedName(p.struc)
          THEN p'.struc = p.struc.prev /\ SegmentsKept
          ELSE /\ Logged(lastLog', "unmatched ENDS: " \o EndsSym)
               /\ p'.struc = p.struc /\ SegmentsKept]_vars

(***************************************************************************)
(* Properties of the substitution                                          *)
(***************************************************************************)
\* The bytes of a word: every byte that is neither a delimiter of the
\* tokens nor the end of the input.
WordByte(t, i) == i >= 1 /\ i <= Len(t) /\ Char(t, i) \notin shuntDelim

\* The place behind the word that holds the byte i, and the place of its
\* first byte.
RECURSIVE WordEnd(_, _)
WordEnd(t, i) == IF WordByte(t, i) THEN WordEnd(t, i + 1) ELSE i

RECURSIVE WordStart(_, _)
WordStart(t, i) == IF WordByte(t, i - 1) THEN WordStart(t, i - 1) ELSE i

\* The word is one that the map replaces.
Replaced(map, w) == ToUpper(w) \in DOMAIN map

\* The ampersand at the place i stands immediately before, or immediately
\* after, a token that is replaced.
BeforeReplaced(map, t, i) ==
    WordByte(t, i + 1) /\ Replaced(map, SubSeq(t, i + 1, WordEnd(t, i + 1) - 1))

AfterReplaced(map, t, i) ==
    WordByte(t, i - 1) /\ Replaced(map, SubSeq(t, WordStart(t, i - 1), i - 1))

\* The text that the three rules make of t from the place i on.
RECURSIVE Substituted(_, _, _)
Substituted(map, t, i) ==
    IF i > Len(t) THEN ""
    ELSE IF WordByte(t, i)
    THEN (IF Replaced(map, SubSeq(t, i, WordEnd(t, i) - 1))
          THEN map[ToUpper(SubSeq(t, i, WordEnd(t, i) - 1))]
          ELSE SubSeq(t, i, WordEnd(t, i) - 1))
            \o Substituted(map, t, WordEnd(t, i))
    ELSE IF Char(t, i) = "&" /\ (BeforeReplaced(map, t, i) \/ AfterReplaced(map, t, i))
    THEN Substituted(map, t, i + 1)
    ELSE Char(t, i) \o Substituted(map, t, i + 1)

\* C30: replace handles every ampersand by one of three rules and loses
\* none: the one immediately before a token that is replaced is consumed,
\* the one immediately after such a token is consumed, and every other one
\* (before a token that is not replaced, at the end of the text, one of
\* several in a row) is written as it is; every other byte, whitespace
\* included, is copied.
C30_Ampersands ==
    (calc.fn = "replace" /\ calc.done) => calc.out = Substituted(BoundA, calc.in, 1)

\* An ampersand of t that is followed neither by a word nor preceded by a
\* replaced token.
LoneAmpersand(map, t) ==
    \E i \in 1..Len(t) :
        Char(t, i) = "&" /\ ~WordByte(t, i + 1) /\ ~AfterReplaced(map, t, i)

\* The text ends in whitespace, behind which replace reads one more token.
EndsInWhitespace(t) == Len(t) > 0 /\ Char(t, Len(t)) \in whitespace

\* The same for the texts in which every ampersand has a word behind it or
\* a replaced token in front of it, and that do not end in whitespace.
C30_UnlessLone ==
    (/\ calc.fn = "replace" /\ calc.done
     /\ ~LoneAmpersand(BoundA, calc.in)
     /\ ~EndsInWhitespace(calc.in)) =>
        calc.out = Substituted(BoundA, calc.in, 1)


(***************************************************************************)
(* Properties of the SEGMENT directives that fail                          *)
(***************************************************************************)
\* The SEGMENT directive evaluated in this step fails: it reports that the
\* CPU setting is too low or that the name is bound to something else.
SegmentFails ==
    /\ lastItem' # Nil /\ lastItem'.val = "SEGMENT"
    /\ Len(p'.instructions) = Len(p.instructions) + 1
    /\ \/ Logged(lastLog', "32-bit segments require at least a .386 CPU setting")
       \/ Logged(lastLog', "64-bit segments require at least a .X64 CPU setting")
       \/ Logged(lastLog', "cannot redeclare " \o toSymCase(p, lastItem'.sym)
                               \o " as a segment, ignoring")

\* The state of the parser q but for the list of the instructions kept.
ParserState(q) == [q EXCEPT !.instructions = <<>>]

\* C31: a SEGMENT directive that fails leaves the whole state of the parser
\* as it was, the attributes of every segment that exists included: the
\* wordsize stored for a segment that is opened again with a wordsize the
\* CPU setting does not allow stays what it was.
C31_FailedSegmentKeeps ==
    [][SegmentFails => ParserState(p') = ParserState(evalInitSyms(p))]_vars

\* The same for the segments whose name does not exist yet.
C31_FailedNewSegmentKeeps ==
    [][(SegmentFails /\ toSymCase(p, lastItem'.sym) \notin DOMAIN p.segs) =>
            ParserState(p') = ParserState(evalInitSyms(p))]_vars


(***************************************************************************)
(* Properties of the predefined symbols                                    *)
(***************************************************************************)
\* The symbol name exists in the symbol table of q and holds an integer.
HoldsInteger(q, name) ==
    name \in DOMAIN q.syms /\ q.syms[name].val.k = "asmInt"

PredefinedIntegers(q) == HoldsInteger(q, "@CPU") /\ HoldsInteger(q, "@WORDSIZE")

\* C32: after the first call of eval the symbols @CPU and @WORDSIZE exist
\* and hold integers, whatever the directives were, = and EQU directives
\* that name them included, so that the lookups of them in SEGMENT and
\* setCPU never fail: the program does not end with a panic.
C32_PredefinedIntegers ==
    lastItem # Nil => (~crashed /\ PredefinedIntegers(p))

\* The directive of this step is an EQU that names @CPU or @WORDSIZE.
EquatesPredefined ==
    /\ lastItem'.val = "EQU"
    /\ toSymCase(p, lastItem'.sym) \in {"@CPU", "@WORDSIZE"}

\* The same step by step, but for the EQU directives that name the two
\* symbols: every other directive keeps them integers and ends no run.
C32_UnlessEquated ==
    [][(/\ lastItem' # Nil
        /\ PredefinedIntegers(evalInitSyms(p))
        /\ ~EquatesPredefined) =>
            (~crashed' /\ PredefinedIntegers(p'))]_vars


(***************************************************************************)
(* Properties of the unary operators                                       *)
(***************************************************************************)
\* The integer that the unary operator id makes of n.
UnaryValue(id, n) ==
    CASE id = "+" -> n
      [] id = "-" -> 0 - n
      [] id = "NOT" -> 0 - n - 1

\* C33: unary plus is the identity on the integers: +x has the value and the
\* base of x; unary minus yields -x and NOT the bitwise complement of x, each
\* with the base of x.
C33_UnaryOperators ==
    (calc.fn = "CalcOp" /\ calc.done) =>
        /\ calc.out.err = NoErr
        /\ calc.out.val.n = UnaryValue(calc.in.id, calc.in.x.n)
        /\ calc.out.val.base = calc.in.x.base

\* The same but for the value of unary plus.
C33_UnlessPlus ==
    (calc.fn = "CalcOp" /\ calc.done) =>
        /\ calc.out.err = NoErr
        /\ calc.in.id # "+" => calc.out.val.n = UnaryValue(calc.in.id, calc.in.x.n)
        /\ calc.out.val.base = calc.in.x.base


(***************************************************************************)
(* Properties of the arguments that take the rest of the parameters        *)
(***************************************************************************)
\* The parameters of the call it from the position i on (i counted from 0),
\* joined; the empty text when the call has i parameters or fewer.
RestOf(it, i) ==
    IF Len(it.params) <= i THEN ""
    ELSE JoinParams(SubSeq(it.params, i + 1, Len(it.params)))

\* The expansion r of the call in binds the last argument to the rest of
\* the parameters: the line of the body is evaluated with it.
RestBound(in, r) ==
    /\ ~r.panic /\ ~r.ret /\ r.err = NoErr
    /\ r.p.instructions =
          Append(in.p.instructions, item("", "DB", <<RestOf(in.it, in.rest)>>))

\* C34: a macro whose last argument, at the position i, is REST or VARARG
\* is expanded with any number of parameters: the argument is bound to the
\* parameters from the position i on joined by ', ', and to the empty text
\* when the call has i parameters or fewer; the expansion never faults on a
\* call with fewer parameters than the macro has arguments.
C34_RestAbsorbs ==
    (calc.fn = "expandMacro" /\ "rest" \in DOMAIN calc.in /\ Len(hist) = 1) =>
        RestBound(calc.in, hist[1])

\* The same for the calls with at least as many parameters as there are
\* arguments before the last one.
C34_UnlessFewer ==
    (/\ calc.fn = "expandMacro" /\ "rest" \in DOMAIN calc.in /\ Len(hist) = 1
     /\ Len(calc.in.it.params) >= calc.in.rest) =>
        RestBound(calc.in, hist[1])


(***************************************************************************)
(* Properties of the CPU settings                                          *)
(***************************************************************************)
\* Whether the bit of the value b, a power of two, is set in n >= 0.
HasBit(n, b) == (n \div b) % 2 = 1

CPUBits == {1, 2, 4, 8, 16, 32, 64, 128, 256, 512, 1024, 2048, 4096}
FPUBits == {256, 1024, 2048}

\* The FPU bits that each of the FPU directives stands for.
FPUBitsOf(name) ==
    CASE name = ".8087" -> {256}
      [] name = ".287" -> {256, 1024}
      [] name = ".387" -> {256, 1024, 2048}

\* The values of @CPU and @WORDSIZE in the parser q.
CPUOf(q) == q.syms["@CPU"].val.n
WordsizeOf(q) == q.syms["@WORDSIZE"].val.n

\* A directive of CPUNames is evaluated in this step.
EvaluatesCPU ==
    /\ lastItem' # Nil /\ lastItem'.val \in CPUNames
    /\ Len(p'.instructions) = Len(p.instructions) + 1

\* The suffix of the directive and the directive without it.
SuffixOf(name) ==
    IF Char(name, Len(name)) \in {"C", "N", "P"} THEN Char(name, Len(name)) ELSE ""
Unsuffixed(name) ==
    IF SuffixOf(name) = "" THEN name ELSE SubSeq(name, 1, Len(name) - 1)

\* The value of @CPU that the directive of the given name leaves when it is
\* evaluated in place of the one of this step.
CPUAfter(name) == CPUOf(eval(p, item("", name, <<>>)).p)

\* C35: after every CPU or FPU directive @WORDSIZE is 8 if the X64 bit of
\* @CPU is set, else 4 if the 386 bit is set, else 2; an FPU directive
\* leaves every bit of @CPU that is no FPU bit as it was and replaces the
\* FPU bits alone; a suffix P sets the privileged bit in addition, and the
\* suffixes C and N give the @CPU of the directive without a suffix.
C35_CPUSettings ==
    [][EvaluatesCPU =>
        /\ WordsizeOf(p') = IF HasBit(CPUOf(p'), 4096) THEN 8
                            ELSE IF HasBit(CPUOf(p'), 8) THEN 4 ELSE 2
        /\ lastItem'.val \in {".8087", ".287", ".387"} =>
              \A b \in CPUBits :
                 HasBit(CPUOf(p'), b) =
                    IF b \in FPUBits THEN b \in FPUBitsOf(lastItem'.val)
                    ELSE HasBit(CPUOf(evalInitSyms(p)), b)
        /\ SuffixOf(lastItem'.val) = "P" =>
              /\ HasBit(CPUOf(p'), 128)
              /\ \A b \in CPUBits \ {128} :
                    HasBit(CPUOf(p'), b) = HasBit(CPUAfter(Unsuffixed(lastItem'.val)), b)
        /\ SuffixOf(lastItem'.val) \in {"C", "N"} =>
              CPUOf(p') = CPUAfter(Unsuffixed(lastItem'.val))]_vars

\* .386P and then .8087: the bits of the 386 and the privileged bit stay,
\* the FPU bits are the one of the 8087, and @WORDSIZE is 4.
C35_Witness ==
    /\ Len(p.instructions) = 2
    /\ p.instructions[1].val = ".386P" /\ lastItem.val = ".8087"
    /\ CPUOf(p) = 1 + 2 + 4 + 8 + 128 + 256
    /\ WordsizeOf(p) = 4


(***************************************************************************)
(* Properties of the dispatch of the directives that emit                  *)
(***************************************************************************)
\* eval of the call in ended with the message msg alone and without a call
\* of the parse function: the parser is as before but for the item kept.
NotParsed(in, r, msg) ==
    /\ ~r.panic
    /\ r.log = ErrorListF(ESError, msg)
    /\ r.p = [in.p EXCEPT !.instructions = Append(in.p.instructions, in.it)]

EmissionMessage(it) ==
    "code or data emission requires a segment: " \o itemString(it)
StructureMessage(it) == it.val \o " not allowed inside structure definition"

\* C36 as the claim has it: an Emit or EmitCode directive evaluated while no
\* segment is open fails with 'code or data emission requires a segment'
\* and its handler is not run; a CodeBlock or EmitCode directive evaluated
\* while a structure is open fails with '... not allowed inside structure
\* definition' and its handler is not run.
C36_AsStated ==
    (calc.fn = "eval" /\ calc.done) =>
        /\ (calc.in.k.Type \cap {Emit, EmitCode} # {} /\ calc.in.p.seg = Nil) =>
              NotParsed(calc.in, calc.out, EmissionMessage(calc.in.it))
        /\ (calc.in.k.Type \cap {CodeBlock, EmitCode} # {} /\ calc.in.p.struc # Nil) =>
              NotParsed(calc.in, calc.out, StructureMessage(calc.in.it))

\* C36: a directive with the flag Emit evaluated while neither a segment nor
\* a structure is open fails with 'code or data emission requires a
\* segment: <item>' and its handler is not run; a CodeBlock or EmitCode
\* directive evaluated while a structure is open fails with '... not allowed
\* inside structure definition' and its handler is not run.
C36_DispatchGuards ==
    (calc.fn = "eval" /\ calc.done) =>
        /\ (/\ Emit \in calc.in.k.Type
            /\ calc.in.p.seg = Nil /\ calc.in.p.struc = Nil) =>
              NotParsed(calc.in, calc.out, EmissionMessage(calc.in.it))
        /\ (calc.in.k.Type \cap {CodeBlock, EmitCode} # {} /\ calc.in.p.struc # Nil) =>
              NotParsed(calc.in, calc.out, StructureMessage(calc.in.it))

\* V = 1 under a keyword with the flag Emit and without a segment or a
\* structure defines no V, and V PROC under a keyword with the flag CodeBlock
\* in a structure opens no procedure.
C36_Witness ==
    /\ calc.fn = "eval" /\ calc.done
    /\ \/ /\ calc.in.k = Keyword("EQUALS", {Declarator, Emit}, Range(0, -1))
          /\ calc.in.p.seg = Nil /\ calc.in.p.struc = Nil
          /\ calc.out.log = ErrorListF(ESError,
                "code or data emission requires a segment: V\t=\t1")
          /\ "V" \notin DOMAIN calc.out.p.syms
       \/ /\ calc.in.k = Keyword("PROC", {Declarator, CodeBlock}, Range(0, -1))
          /\ calc.in.p.struc # Nil
          /\ calc.out.log = ErrorListF(ESError,
                "PROC not allowed inside structure definition")
          /\ calc.out.p.proc.nest = 0


(***************************************************************************)
(* Properties of the data pointers                                         *)
(***************************************************************************)
\* The length in bytes of the data of a chunk or of a structure.
RECURSIVE BytesOf(_)
BytesOf(l) == IF l = <<>> THEN 0 ELSE Len(l[1].data) * l[1].rep + BytesOf(Tail(l))

\* The chunk and the offset at the end of the data of the target of q: the
\* last chunk and its length for a segment, the length of a structure, and
\* zero for a union.
EndOfTarget(q) ==
    IF q.struc # Nil
    THEN [chunk |-> 0, off |-> IF q.struc.flag = sStruc THEN BytesOf(q.struc.data) ELSE 0]
    ELSE IF q.segs[q.seg.name].chunks = <<>> THEN [chunk |-> 0, off |-> 0]
    ELSE [chunk |-> Len(q.segs[q.seg.name].chunks) - 1,
          off |-> BytesOf(q.segs[q.seg.name].chunks[Len(q.segs[q.seg.name].chunks)])]

\* The pointer that the call in is to install.
PointerOf(in) ==
    [k |-> "asmDataPtr",
     et |-> IF in.p.struc # Nil THEN strucPtr(in.p.struc) ELSE in.p.seg,
     chunk |-> EndOfTarget(in.p).chunk,
     off |-> IF in.p.pass2 THEN EndOfTarget(in.p).off ELSE Nil,
     w |-> in.width]

\* The symbol tables after the call in: the global one and the members of
\* the open structure.
WithSymbol(syms, in) == (ToUpper(in.sym) :> symbol(PointerOf(in), TRUE)) @@ syms

\* C37: EmitPointer installs a data pointer only for an item with a symbol,
\* and into the current emission target, the innermost open structure if
\* there is one and the current segment else: in the first pass the offset
\* of the pointer is absent, in the second its chunk and offset are what
\* the target's Offset reports at that moment.  A segment registers the
\* pointer as a constant in the global symbol table; a structure registers
\* it in its members and, for the outermost structure under the TASM
\* syntax alone, in the global symbol table too.
C37_EmitPointer ==
    (calc.fn = "EmitPointer" /\ calc.done) =>
        /\ ~calc.out.panic /\ calc.out.err = NoErr
        /\ calc.out.p.segs = calc.in.p.segs /\ calc.out.p.seg = calc.in.p.seg
        /\ IF calc.in.sym = "" THEN calc.out.p = calc.in.p
           ELSE IF calc.in.p.struc = Nil
           THEN /\ calc.out.p.syms = WithSymbol(calc.in.p.syms, calc.in)
                /\ calc.out.p.struc = Nil
           ELSE /\ calc.out.p.struc =
                      [calc.in.p.struc EXCEPT
                          !.members = WithSymbol(calc.in.p.struc.members, calc.in)]
                /\ calc.out.p.syms =
                      IF calc.in.p.struc.prev = Nil /\ calc.in.p.syntax = "TASM"
                      THEN WithSymbol(calc.in.p.syms, calc.in)
                      ELSE calc.in.p.syms

\* In the second pass the symbol v in a structure of one byte inside a
\* segment of two bytes points to the offset 1 of the structure, and is
\* known globally under TASM; in the first pass its offset is absent.
C37_Witness ==
    /\ calc.fn = "EmitPointer" /\ calc.done
    /\ calc.in.sym = "v" /\ calc.in.p.seg # Nil /\ calc.in.p.struc # Nil
    /\ calc.out.p.struc.members["V"].val.et.k = "*asmStruc"
    /\ \/ /\ calc.in.p.pass2 /\ calc.in.p.syntax = "TASM"
          /\ calc.out.p.struc.members["V"].val.off = 1
          /\ calc.out.p.syms["V"].val.off = 1
       \/ /\ ~calc.in.p.pass2 /\ calc.in.p.syntax = "MASM"
          /\ calc.out.p.struc.members["V"].val.off = Nil
          /\ "V" \notin DOMAIN calc.out.p.syms


(***************************************************************************)
(* Properties of the names of the locals                                   *)
(***************************************************************************)
\* The names of locals among the operands of the jumps that the expansions
\* have handed to eval, in the order of the run.
IsLocalName(t) == Len(t) >= 2 /\ SubSeq(t, 1, 2) = "??"
RECURSIVE BoundNames(_, _)
BoundNames(ins, i) ==
    IF i > Len(ins) THEN <<>>
    ELSE (IF ins[i].val = "JMP" THEN SelectSeq(ins[i].params, IsLocalName)
          ELSE <<>>) \o BoundNames(ins, i + 1)
LocalLabels == BoundNames(p.instructions, 1)

\* The locals bound so far have the names of the numbers from 0 on, one
\* after the other, and the counter stands at their number.
LocalsNumbered ==
    /\ Len(LocalLabels) = p.macroLocalCount
    /\ \A i \in 1..Len(LocalLabels) : LocalLabels[i] = LocalName(i - 1)
    /\ \A i, j \in 1..Len(LocalLabels) :
          i # j => LocalLabels[i] # LocalLabels[j]

\* eval has been called for the item it.
EvaluatesItem(it) ==
    lastItem' = it /\ Len(p'.instructions) > Len(p.instructions)

\* The call of M without its argument fails and leaves the counter alone,
\* in O after the local of O is bound.
FailedKeepsCounter ==
    /\ EvaluatesItem(item("", "M", <<>>)) =>
          /\ p'.macroLocalCount = evalInitSyms(p).macroLocalCount
          /\ lastLog' = AddF(NoErr, ESError, "macro argument #1 (A) is required")
    /\ EvaluatesItem(item("", "O", <<>>)) =>
          /\ p'.macroLocalCount = evalInitSyms(p).macroLocalCount + 1
    /\ EvaluatesItem(item("", "M", <<"5">>)) =>
          /\ p'.macroLocalCount = evalInitSyms(p).macroLocalCount + 2
    /\ EvaluatesItem(item("", "N", <<>>)) =>
          /\ p'.macroLocalCount = evalInitSyms(p).macroLocalCount + 3

\* C38: in a run whose counter of locals starts at 0, every local that an
\* expansion binds takes the name ??XXXX of the counter, which then advances
\* by one, so that no two locals of the run get the same name, in nested
\* expansions too; an expansion that fails for a required argument leaves
\* the counter as it is.
C38_LocalNames == []LocalsNumbered /\ [][FailedKeepsCounter]_vars

\* M was called without its argument, N has bound its local and then the two
\* of the call of M within it, and O has bound the sixth local of the run
\* although the call of M in it failed.
C38_Witness ==
    /\ p.macroLocalCount = 6
    /\ lastItem = item("", "O", <<>>)
    /\ Len(LocalLabels) = 6
    /\ LocalLabels[6] = "??0005"
    /\ \E i \in 1..Len(p.instructions) : p.instructions[i] = item("", "M", <<>>)
    /\ \E i \in 2..Len(p.instructions) :
          /\ p.instructions[i - 1] = item("", "JMP", <<"??0002">>)
          /\ p.instructions[i] = item("", "JMP", <<"??0003", "??0004">>)


(***************************************************************************)
(* Properties of the report at the end of the items                        *)
(***************************************************************************)
\* The text s holds the text t.
Mentions(s, t) ==
    \E i \in 1..(Len(s) - Len(t) + 1) : SubSeq(s, i, i + Len(t) - 1) = t

\* The names of the open structures from block outward, and of the open
\* segments from ptr outward for at most fuel of them.
RECURSIVE StrucChain(_)
StrucChain(block) ==
    IF block = Nil THEN <<>> ELSE <<strucName(block)>> \o StrucChain(block.prev)
RECURSIVE SegChain(_, _, _)
SegChain(q, ptr, fuel) ==
    IF ptr = Nil \/ fuel = 0 THEN <<>>
    ELSE <<q.segs[ptr.name].name>> \o SegChain(q, q.segs[ptr.name].prev, fuel - 1)

\* The chain of names, from the innermost block outward.
RECURSIVE ChainText(_)
ChainText(names) ==
    IF Len(names) = 1 THEN names[1]
    ELSE names[1] \o " <- " \o ChainText(Tail(names))
OpenText(thing, names) ==
    "open " \o thing \o (IF Len(names) > 1 THEN "s: " ELSE ": ") \o ChainText(names)

\* p.end() has been called.
EndCalled == calc # Nil /\ calc.fn = "end"
EndLogged(line) == \E i \in 1..Len(calc.out.log) : calc.out.log[i] = line
NoBlockOpen ==
    p.proc.nest = 0 /\ p.macro.nest = 0 /\ p.struc = Nil /\ p.seg = Nil

ProcReported ==
    p.proc.nest # 0 =>
        \E i \in 1..Len(calc.out.log) :
            /\ Mentions(calc.out.log[i], "procedure")
            /\ Mentions(calc.out.log[i], p.proc.name)
MacroReported ==
    p.macro.nest # 0 =>
        \E i \in 1..Len(calc.out.log) : Mentions(calc.out.log[i], p.macro.name)
StrucReported ==
    p.struc # Nil => EndLogged(OpenText("structure", StrucChain(p.struc)))
SegReported ==
    p.seg # Nil =>
        EndLogged(OpenText("segment", SegChain(p, p.seg, Cardinality(DOMAIN p.segs))))

\* C39: when the items end, parser.end logs a line for every block that is
\* open: one that names the procedure, one that names the macro, one with the
\* chain of the open structures and unions from the innermost outward, and
\* one with the chain of the open segments; it logs nothing when no block is
\* open.
C39_OpenBlocksReported ==
    EndCalled =>
        /\ ProcReported /\ MacroReported /\ StrucReported /\ SegReported
        /\ NoBlockOpen => calc.out.log = <<>>


(***************************************************************************)
(* Properties of the parameters with nested brackets                       *)
(***************************************************************************)
BracketOpener(b) == IF b = ")" THEN "(" ELSE "<"

\* The brackets that are open behind the text t, read from the i-th byte on
\* with the brackets st open, the innermost last; a closing bracket that
\* does not close the innermost open one leaves the mark ! there.
RECURSIVE OpenBrackets(_, _, _)
OpenBrackets(t, i, st) ==
    IF i > Len(t) THEN st
    ELSE IF Char(t, i) \in {"(", "<"}
    THEN OpenBrackets(t, i + 1, Append(st, Char(t, i)))
    ELSE IF Char(t, i) \in {")", ">"}
    THEN IF Len(st) > 0 /\ st[Len(st)] = BracketOpener(Char(t, i))
         THEN OpenBrackets(t, i + 1, SubSeq(st, 1, Len(st) - 1))
         ELSE <<"!">>
    ELSE OpenBrackets(t, i + 1, st)

\* Every bracket of t is one of a balanced pair.
Balanced(t) == OpenBrackets(t, 1, <<>>) = <<>>

\* C40: in a text whose brackets are balanced, nextParam ends a parameter
\* at no comma inside a pair of brackets, so that the brackets of the
\* parameter are balanced too, also when a pair lies within a pair of the
\* same class: of ((a),b),c the parameter is ((a),b).
C40_NestedBrackets ==
    (calc.fn = "nextParam" /\ calc.done /\ Balanced(calc.in)) =>
        /\ Balanced(calc.out.ret)
        /\ calc.in = "((a),b),c" => calc.out.ret = "((a),b)"

============================================================================
